---------------------------- MODULE Spec2Model ----------------------------
(***************************************************************************)
(* Model of the rebaseline engine of playwright-test.                      *)
(*                                                                         *)
(*   src/unnamed/part_002                                                  *)
(*       the interactive engine: SourceCode with Live Offsets, the request *)
(*       store (rebaseline.json), rebaselineCommand.                       *)
(*   src/packages/playwright-test/src/rebaseline.ts                        *)
(*       the batch engine: Rebaseline.addRebaseline / performRebaselines,  *)
(*       its own SourceCode, binarySearch and extractSourceCodeMatchers.   *)
(*                                                                         *)
(* A file's text is the sequence of its characters; an offset counts       *)
(* characters from 0, as a JavaScript string index does.  The parser       *)
(* (babel's parse and traverse) is modelled on a fragment of JavaScript:   *)
(* member calls  <receiver>.<name>(<argument>)  with at most one argument, *)
(* which is a number, a string "..", a template literal, an object         *)
(* { .. }, or any other expression; blanks, line breaks and the comment    *)
(* /**/ may surround the argument.  In an argument, a letter outside a     *)
(* string is (part of) an identifier, and an identifier followed by ':'    *)
(* is a non-computed object key.                                           *)
(***************************************************************************)
EXTENDS Integers, Sequences, FiniteSets, TLC

VARIABLES
    disk,       \* path -> text of the file on disk
    sc,         \* path -> the SourceCode object of the run (see NoSourceCode)
    cache,      \* the paths whose SourceCode object exists in this run
    last,       \* the last SourceCode call: what it was given, what it found
    nops,       \* number of API calls made (Spec), crashes so far (SpecInteractive)
    store,      \* ./rebaseline.json: the sequence of raw requests
    requests,   \* interactive: the loaded requests, in iteration order
    cur,        \* interactive: index in requests of the request in the loop
    pc,         \* position of the running command
    hist,       \* what the run has done so far (observation only)
    pending,    \* batch: Rebaseline._requests, in insertion order
    queue,      \* batch: the sorted requests of the current file, yet to do
    unsatisfiedRequests, \* batch: the requests found unmatched
    log,        \* RebaselineLog: _failedSteps and _rebaselineInfos
    loads,      \* the calls of SourceCode.read in flight (see NoLoads)
    artifacts,  \* path -> content of the files a request's actualPath and
                \* snapshotPath name
    testInfo    \* the running test: config, project.retries and retry

vars == <<disk, sc, cache, last, nops, store, requests, cur, pc, hist,
          pending, queue, unsatisfiedRequests, log, loads, artifacts, testInfo>>

---------------------------------------------------------------------------
(* Bounds of the model.                                                    *)

\* Spec: how many SourceCode calls one behaviour makes.
MaxOps == 3
\* How many requests one run records.
MaxRequests == 2
\* SpecInteractive: how many times the process is interrupted and re-run.
MaxCrashes == 1
\* SpecRead: how many callers of SourceCode.read are in flight together.
MaxCallers == 3
\* SpecMode: the largest number of retries a project grants.
MaxRetries == 2

Files == {"a.spec.js", "b.spec.js"}

\* The test of a run in which the modes are not asked for.
NoTestInfo ==
    [config |-> [updateSnapshots |-> "missing", rebaselineMatchers |-> "missing"],
     project |-> [retries |-> 0], retry |-> 0]

\* No call of SourceCode.read is in flight.
NoLoads == <<>>

\* No request names a file by actualPath or snapshotPath.
NoArtifacts == <<>>

---------------------------------------------------------------------------
(* Sequences.                                                              *)

Min(a, b) == IF a < b THEN a ELSE b
Max(a, b) == IF a > b THEN a ELSE b

\* String.prototype.substring(from, to) on offsets counted from 0: both ends
\* are clamped to [0, length] and swapped when from > to.
Substring(s, from, to) ==
    LET f == Max(0, Min(from, Len(s)))
        t == Max(0, Min(to, Len(s)))
        lo == Min(f, t)
        hi == Max(f, t)
    IN  [i \in 1..(hi - lo) |-> s[lo + i]]

SubstringFrom(s, from) == Substring(s, from, Len(s))

\* The sequence of the elements of a set of integers, ascending.
RECURSIVE Ascending(_)
Ascending(S) ==
    IF S = {} THEN <<>>
    ELSE LET m == CHOOSE x \in S : \A y \in S : x <= y
         IN  <<m>> \o Ascending(S \ {m})

\* The offsets of the line breaks of a text, ascending: what the
\* constructor's loop pushes to _lineEndings.
LineEndings(code) == Ascending({i \in 0..(Len(code) - 1) : code[i + 1] = "\n"})

\* crypto.createHash('md5').update(code).digest('hex'): a non-empty digest
\* that differs whenever the text differs.
Md5(code) == <<"md5">> \o code

\* The value of _md5 before the first md5hash() and after every replace: ''.
NoMd5 == <<>>

---------------------------------------------------------------------------
(* Text: names, values and the parser.                                     *)

ToBe == <<"t", "o", "B", "e">>
ToEqual == <<"t", "o", "E", "q", "u", "a", "l">>
ToMatchSnapshot == <<"t", "o", "M", "a", "t", "c", "h", "S", "n", "a", "p", "s", "h", "o", "t">>
ToHaveScreenshot == <<"t", "o", "H", "a", "v", "e", "S", "c", "r", "e", "e", "n", "s", "h", "o", "t">>

\* The quote of a template literal.  A TLA+ string cannot hold the backquote;
\* the model writes it ' (the fragment has no single-quoted strings).
BackQuote == "'"

Digits == {"0", "1", "2", "3", "4", "5", "6", "7", "8", "9"}
Blanks == {" ", "\n"}
Specials == Digits \cup Blanks \cup
    {"(", ")", ".", ";", ",", ":", "\"", BackQuote, "$", "{", "}", "[", "]", "/", "*", "-"}
\* Every other character of a text is a letter.
IsLetter(c) == c \notin Specials

DigitOf(d) == CASE d = 0 -> "0" [] d = 1 -> "1" [] d = 2 -> "2" [] d = 3 -> "3"
                [] d = 4 -> "4" [] d = 5 -> "5" [] d = 6 -> "6" [] d = 7 -> "7"
                [] d = 8 -> "8" [] OTHER -> "9"

RECURSIVE Decimal(_)
Decimal(n) == IF n < 10 THEN <<DigitOf(n)>> ELSE Decimal(n \div 10) \o <<DigitOf(n % 10)>>

\* A JSON value the test runner reports: a number n >= 0 or a string s
\* (without quotes or backslashes in it).
Number(n) == [type |-> "number", n |-> n, s |-> <<>>]
String(s) == [type |-> "string", n |-> 0, s |-> s]

\* JSON.stringify(value).
Stringify(value) ==
    IF value.type = "number" THEN Decimal(value.n)
    ELSE <<"\"">> \o value.s \o <<"\"">>

\* The index of the ')' that closes the '(' before index i, 0 when there is
\* none; depth counts the '(' opened since.
RECURSIVE CloseOf(_, _, _)
CloseOf(code, i, depth) ==
    IF i > Len(code) THEN 0
    ELSE IF code[i] = "(" THEN CloseOf(code, i + 1, depth + 1)
    ELSE IF code[i] = ")" THEN (IF depth = 0 THEN i ELSE CloseOf(code, i + 1, depth - 1))
    ELSE CloseOf(code, i + 1, depth)

\* The index after the last letter of the word that starts at index i.
RECURSIVE WordEnd(_, _)
WordEnd(code, i) ==
    IF i > Len(code) \/ ~IsLetter(code[i]) THEN i ELSE WordEnd(code, i + 1)

Count(code, c, lo, hi) == Cardinality({j \in lo..hi : code[j] = c})

\* parse(): the text is in the fragment: its parentheses and quotes pair up.
Parses(code) ==
    /\ \A i \in 1..Len(code) : code[i] = "(" => CloseOf(code, i + 1, 0) # 0
    /\ Count(code, "(", 1, Len(code)) = Count(code, ")", 1, Len(code))
    /\ Count(code, "\"", 1, Len(code)) % 2 = 0
    /\ Count(code, BackQuote, 1, Len(code)) % 2 = 0

\* The indexes of the property names of the member calls: CallExpression
\* nodes whose callee is a MemberExpression with an Identifier property.
CallSites(code) ==
    {i \in 2..Len(code) :
        /\ code[i - 1] = "."
        /\ IsLetter(code[i])
        /\ WordEnd(code, i) <= Len(code)
        /\ code[WordEnd(code, i)] = "("}

\* The name of the call at site i, the index of its '(' and of its ')'.
SiteName(code, i) == SubSeq(code, i, WordEnd(code, i) - 1)
SiteOpen(code, i) == WordEnd(code, i)
SiteClose(code, i) == CloseOf(code, WordEnd(code, i) + 1, 0)

\* The indexes between the parentheses of site i that belong to the comment
\* /**/ or are blank: not part of a node.
InComment(code, j) ==
    \E k \in (j - 3)..j :
        /\ k >= 1
        /\ k + 3 <= Len(code)
        /\ SubSeq(code, k, k + 3) = <<"/", "*", "*", "/">>

IsTrivia(code, j) == code[j] \in Blanks \/ InComment(code, j)

\* The indexes of the characters of arguments[0] of site i (empty: no argument).
ArgIndexes(code, i) ==
    LET inner == {j \in (SiteOpen(code, i) + 1)..(SiteClose(code, i) - 1) : ~IsTrivia(code, j)}
    IN  IF inner = {} THEN {}
        ELSE LET lo == CHOOSE j \in inner : \A k \in inner : j <= k
                 hi == CHOOSE j \in inner : \A k \in inner : j >= k
             IN  lo..hi

HasArg(code, i) == ArgIndexes(code, i) # {}
\* node.arguments[0].start and .end, as offsets.
ArgStart(code, i) == (CHOOSE j \in ArgIndexes(code, i) : \A k \in ArgIndexes(code, i) : j <= k) - 1
ArgEnd(code, i) == CHOOSE j \in ArgIndexes(code, i) : \A k \in ArgIndexes(code, i) : j >= k

\* Index j of the argument of site i lies inside a string literal.
InString(code, i, j) == Count(code, "\"", ArgStart(code, i) + 1, j - 1) % 2 = 1

\* An Identifier node under (or at) arguments[0] starts at index j and is not
\* the non-computed key of an object property.
IsIdentifierAt(code, i, j) ==
    /\ IsLetter(code[j])
    /\ ~InString(code, i, j)
    /\ ~(WordEnd(code, j) <= Len(code) /\ code[WordEnd(code, j)] = ":")

\* types.isLiteral(arguments[0]): a numeric, string or template literal.
IsLiteralArg(code, i) ==
    LET lo == ArgStart(code, i) + 1
        hi == ArgEnd(code, i)
    IN  \/ \A j \in lo..hi : code[j] \in Digits
        \/ /\ hi > lo
           /\ \E q \in {"\"", BackQuote} :
                /\ code[lo] = q
                /\ code[hi] = q
                /\ Count(code, q, lo, hi) = 2


---------------------------------------------------------------------------
(* SourceCode of src/unnamed/part_002.                                     *)

\* A SourceCode object right after its constructor ran on a text.
NewSourceCode(code) ==
    [code |-> code,
     lineEndings |-> LineEndings(code),
     liveOffsets |-> <<>>,
     hadChanges |-> FALSE,
     md5 |-> NoMd5,
     hasMatchers |-> FALSE,
     matchers |-> <<>>]

\* The entry of sc for a path no SourceCode object exists for.
NoSourceCode == NewSourceCode(<<>>)

\* liveOffset(offset): a new cell at the end of _liveOffsets; its index is
\* what the caller keeps.
liveOffset(s, offset) ==
    [s EXCEPT !.liveOffsets = Append(@, offset)]

\* A different rule for a cell at the edit's start: only cells strictly
\* before the start are skipped.  Not what the code does.
RebaseInclusive(v, from, to, delta) ==
    IF v < from THEN [value |-> v, threw |-> FALSE]
    ELSE IF v >= to THEN [value |-> v + delta, threw |-> FALSE]
    ELSE [value |-> v, threw |-> TRUE]

\* A different rule for the cells behind the edit: they are left where
\* they were.  Not what the code does.
RebaseFrozen(v, from, to, delta) ==
    IF v > from /\ v < to THEN [value |-> v, threw |-> TRUE]
    ELSE [value |-> v, threw |-> FALSE]

\* A different rule for a cell inside the edit: it is left where it was
\* and nothing is thrown.  Not what the code does.
RebaseLenient(v, from, to, delta) ==
    IF v <= from THEN [value |-> v, threw |-> FALSE]
    ELSE IF v >= to THEN [value |-> v + delta, threw |-> FALSE]
    ELSE [value |-> v, threw |-> FALSE]

\* A different rule for the cells behind the edit: they move by the length
\* removed, whatever the length of the text put in.  Not what the code does.
RebaseByRemoved(v, from, to, delta) ==
    IF v <= from THEN [value |-> v, threw |-> FALSE]
    ELSE IF v >= to THEN [value |-> v - (to - from), threw |-> FALSE]
    ELSE [value |-> v, threw |-> TRUE]

\* One turn of replace's loop over _liveOffsets, for a cell of value v:
\* the new value, and whether the turn throws.
Rebase(v, from, to, delta) ==
    IF v <= from THEN [value |-> v, threw |-> FALSE]
    ELSE IF v >= to THEN [value |-> v + delta, threw |-> FALSE]
    ELSE [value |-> v, threw |-> TRUE]

\* replace's loop from cell i on: it stops at the first cell that throws,
\* with the cells before it rebased and the cells after it as they were.
RECURSIVE RebaseAll(_, _, _, _, _)
RebaseAll(offs, i, from, to, delta) ==
    IF i > Len(offs) THEN [offs |-> offs, threw |-> FALSE]
    ELSE LET r == Rebase(offs[i], from, to, delta)
         IN  IF r.threw THEN [offs |-> offs, threw |-> TRUE]
             ELSE RebaseAll([offs EXCEPT ![i] = r.value], i + 1, from, to, delta)

\* replace that does not set _hadChanges.  Not what the code does.
replaceNotDirty(s, from, to, text) ==
    LET delta == - to + from + Len(text)
        code == Substring(s.code, 0, from) \o text \o SubstringFrom(s.code, to)
        r == RebaseAll(s.liveOffsets, 1, from, to, delta)
    IN  [sc |-> [s EXCEPT !.md5 = NoMd5,
                          !.code = code,
                          !.liveOffsets = r.offs],
         threw |-> r.threw]

\* replace that leaves the memo of md5hash alone.  Not what the code does.
replaceKeepingMd5(s, from, to, text) ==
    LET delta == - to + from + Len(text)
        code == Substring(s.code, 0, from) \o text \o SubstringFrom(s.code, to)
        r == RebaseAll(s.liveOffsets, 1, from, to, delta)
    IN  [sc |-> [s EXCEPT !.hadChanges = TRUE,
                          !.code = code,
                          !.liveOffsets = r.offs],
         threw |-> r.threw]

\* replace(from, to, text): the object afterwards, and whether it threw
\* 'internal error: LiveOffset was removed due to edit operation'.
replace(s, from, to, text) ==
    LET delta == - to + from + Len(text)
        code == Substring(s.code, 0, from) \o text \o SubstringFrom(s.code, to)
        r == RebaseAll(s.liveOffsets, 1, from, to, delta)
    IN  [sc |-> [s EXCEPT !.hadChanges = TRUE,
                          !.md5 = NoMd5,
                          !.code = code,
                          !.liveOffsets = r.offs],
         threw |-> r.threw]

\* md5hash(): the object afterwards (its memo filled); the value returned is
\* the memo.
md5hash(s) ==
    IF s.md5 = NoMd5 THEN [s EXCEPT !.md5 = Md5(s.code)] ELSE s

\* save() that calls writeFile whatever the flag says.  Not what the code does.
savesAlways(s) == TRUE

\* Whether save() gets past its early return and calls writeFile.
savesToDisk(s) == s.hadChanges

\* save(): nothing unless _hadChanges; else the text goes to disk and the
\* flag is cleared.  The object afterwards.
save(s) ==
    IF ~savesToDisk(s) THEN s ELSE [s EXCEPT !.hadChanges = FALSE]

\* What save() leaves on disk at a path whose content was old.
saveDisk(s, old) ==
    IF ~savesToDisk(s) THEN old ELSE s.code

---------------------------------------------------------------------------
(* The batch engine: src/packages/playwright-test/src/rebaseline.ts.       *)

isSupportedMatcher(matcherName) == matcherName = ToBe \/ matcherName = ToEqual

\* hasIdentifier of the CallExpression visitor: the argument is an Identifier
\* or holds one that is not a non-computed object key.
hasIdentifier(code, i) ==
    \E j \in ArgIndexes(code, i) : IsIdentifierAt(code, i, j)

\* A matcher whose range starts one character late.  Not what the code does.
BatchMatcherLate(code, i) ==
    [name |-> SiteName(code, i),
     range |-> [from |-> i, to |-> SiteClose(code, i)],
     hasArg |-> HasArg(code, i),
     argRange |-> IF HasArg(code, i)
                  THEN [from |-> ArgStart(code, i), to |-> ArgEnd(code, i)]
                  ELSE [from |-> 0, to |-> 0]]

\* The matcher the visitor pushes for site i.
BatchMatcher(code, i) ==
    [name |-> SiteName(code, i),
     range |-> [from |-> i - 1, to |-> SiteClose(code, i)],
     hasArg |-> HasArg(code, i),
     argRange |-> IF HasArg(code, i)
                  THEN [from |-> ArgStart(code, i), to |-> ArgEnd(code, i)]
                  ELSE [from |-> 0, to |-> 0]]

BatchSites(code) ==
    {i \in CallSites(code) :
        isSupportedMatcher(SiteName(code, i)) /\ ~hasIdentifier(code, i)}

\* The matchers sorted the wrong way round.  Not what the code does.
extractSourceCodeMatchersDescending(code) ==
    LET sites == Ascending(BatchSites(code))
    IN  [k \in 1..Len(sites) |-> BatchMatcher(code, sites[Len(sites) + 1 - k])]

\* extractSourceCodeMatchers(file, code), for a text that parses: the
\* matchers, sorted by range.from.
extractSourceCodeMatchers(code) ==
    LET sites == Ascending(BatchSites(code))
    IN  [k \in 1..Len(sites) |-> BatchMatcher(code, sites[k])]

\* A JavaScript number that may be NaN.
Num(n) == [nan |-> FALSE, n |-> n]
NaN == [nan |-> TRUE, n |-> 0]

\* positionToOffset(lineNumber, columnNumber), both counted from 0:
\* _lineEndings[lineNumber - 1] is undefined past the table (and before it),
\* and undefined + 1 + columnNumber is NaN.
batchPositionToOffset(s, lineNumber, columnNumber) ==
    IF lineNumber = 0 THEN Num(columnNumber)
    ELSE IF lineNumber - 1 \in 0..(Len(s.lineEndings) - 1)
         THEN Num(s.lineEndings[lineNumber] + 1 + columnNumber)
         ELSE NaN

\* binarySearch(allMatchers, matcher => matcher.range.from - offset): an
\* index counted from 0, or -1.  With offset NaN the difference is NaN,
\* neither < 0 nor > 0, and the first probe is returned.
RECURSIVE batchBinarySearch(_, _, _, _)
batchBinarySearch(haystack, offset, l, r) ==
    IF l >= r THEN -1
    ELSE LET m == (l + r) \div 2
             from == haystack[m + 1].range.from
         IN  IF ~offset.nan /\ from - offset.n < 0 THEN batchBinarySearch(haystack, offset, m + 1, r)
             ELSE IF ~offset.nan /\ from - offset.n > 0 THEN batchBinarySearch(haystack, offset, l, m)
             ELSE m

\* replace(from, to, text) of the batch SourceCode: no Live Offsets.
batchReplace(s, from, to, text) ==
    [s EXCEPT !.hadChanges = TRUE,
              !.code = Substring(s.code, 0, from) \o text \o SubstringFrom(s.code, to)]

\* The request map's key of a request.
RequestId(request) == <<request.lineNumber, request.columnNumber>>

\* Map.set(id, request) on the requests of a file, kept in insertion order:
\* a known key keeps its place and takes the new value.
MapSet(reqs, request) ==
    IF \E k \in 1..Len(reqs) : RequestId(reqs[k]) = RequestId(request)
    THEN [k \in 1..Len(reqs) |->
            IF RequestId(reqs[k]) = RequestId(request) THEN request ELSE reqs[k]]
    ELSE Append(reqs, request)

\* addRebaseline(request) on _requests, a sequence of [file, reqs].
addRebaseline(map, request) ==
    IF \E k \in 1..Len(map) : map[k].file = request.file
    THEN [k \in 1..Len(map) |->
            IF map[k].file = request.file
            THEN [map[k] EXCEPT !.reqs = MapSet(@, request)]
            ELSE map[k]]
    ELSE Append(map, [file |-> request.file, reqs |-> MapSet(<<>>, request)])

\* An order that looks at the line only.  Not what the code does.
SortsBeforeByLine(r1, r2) == r1.lineNumber > r2.lineNumber

\* The opposite order: ascending line, then column.  Not what the code does.
SortsBeforeAscending(r1, r2) ==
    IF r1.lineNumber # r2.lineNumber THEN r1.lineNumber < r2.lineNumber
    ELSE r1.columnNumber < r2.columnNumber

\* r1 comes before r2 after requests.sort(...): descending line, then column.
SortsBefore(r1, r2) ==
    IF r1.lineNumber # r2.lineNumber THEN r1.lineNumber > r2.lineNumber
    ELSE r1.columnNumber > r2.columnNumber

\* Array.prototype.sort is stable: r goes before the elements at the end
\* of the sorted sequence that it sorts before, and behind all others.
RECURSIVE InsertRequest(_, _)
InsertRequest(sorted, r) ==
    IF sorted = <<>> THEN <<r>>
    ELSE IF SortsBefore(r, sorted[Len(sorted)])
    THEN Append(InsertRequest(SubSeq(sorted, 1, Len(sorted) - 1), r), sorted[Len(sorted)])
    ELSE Append(sorted, r)

\* requests.sort(...) on the requests of one file, given in the order of
\* the Map (the order in which their keys were first registered).
RECURSIVE SortRequests(_)
SortRequests(reqs) ==
    IF reqs = <<>> THEN <<>>
    ELSE InsertRequest(SortRequests(SubSeq(reqs, 1, Len(reqs) - 1)), reqs[Len(reqs)])

Range(seq) == {seq[k] : k \in 1..Len(seq)}

\* The body of the loop over the sorted requests, for one request: the
\* SourceCode object afterwards and whether the request was unsatisfied.
ProcessRequest(s, allMatchers, request) ==
    LET offset == batchPositionToOffset(s, request.lineNumber - 1, request.columnNumber - 1)
        index == batchBinarySearch(allMatchers, offset, 0, Len(allMatchers))
    IN  IF index = -1 \/ allMatchers[index + 1].name # request.matcherName
        THEN [sc |-> s, unsatisfied |-> TRUE, from |-> 0, to |-> 0, text |-> <<>>]
        ELSE LET matcher == allMatchers[index + 1]
                 newExpected == Stringify(request.newExpected)
             IN  IF matcher.hasArg
                 THEN [sc |-> batchReplace(s, matcher.argRange.from, matcher.argRange.to, newExpected),
                       unsatisfied |-> FALSE,
                       from |-> matcher.argRange.from, to |-> matcher.argRange.to,
                       text |-> newExpected]
                 ELSE [sc |-> batchReplace(s, matcher.range.from, matcher.range.to,
                                           matcher.name \o <<"(">> \o newExpected \o <<")">>),
                       unsatisfied |-> FALSE,
                       from |-> matcher.range.from, to |-> matcher.range.to,
                       text |-> matcher.name \o <<"(">> \o newExpected \o <<")">>]

---------------------------------------------------------------------------
(* Spec: one SourceCode object under its API (liveOffset, replace,         *)
(* md5hash, save), called in any order with any arguments.                 *)

\* The file the API is exercised on, and the texts it starts from.
ApiFile == "a.spec.js"
ApiTexts == { <<"1", "\n", "2">>, <<"E", "toBe", "(", ")">> }
\* The texts replace() is given: empty, as long as, longer than what they replace.
ApiReplacements == { <<>>, <<"1">>, <<"1", "0">> }

\* last: the call made last, the object and the disk before it, whether it
\* threw and whether it wrote the file; prev and prevWrote are op and wrote
\* of the call before it.
NoCall ==
    [op |-> "none", file |-> ApiFile, from |-> 0, to |-> 0, text |-> <<>>,
     before |-> NoSourceCode, diskBefore |-> <<>>, threw |-> FALSE,
     wrote |-> FALSE, prev |-> "none", prevWrote |-> FALSE]

Idle ==
    /\ store = <<>>
    /\ requests = <<>>
    /\ cur = 0
    /\ pc = "api"
    /\ hist = <<>>
    /\ pending = <<>>
    /\ queue = <<>>
    /\ unsatisfiedRequests = <<>>
    /\ log = <<>>
    /\ loads = NoLoads
    /\ artifacts = NoArtifacts
    /\ testInfo = NoTestInfo

IdleUnchanged ==
    UNCHANGED <<store, requests, cur, pc, hist, pending, queue, unsatisfiedRequests, log, loads,
                artifacts, testInfo>>

Init ==
    /\ \E t \in ApiTexts :
          /\ disk = [f \in Files |-> IF f = ApiFile THEN t ELSE <<>>]
          /\ sc = [f \in Files |-> IF f = ApiFile THEN NewSourceCode(t) ELSE NoSourceCode]
    /\ cache = {ApiFile}
    /\ last = NoCall
    /\ nops = 0
    /\ Idle

Call(op, f, from, to, text, threw) ==
    [op |-> op, file |-> f, from |-> from, to |-> to, text |-> text,
     before |-> sc[f], diskBefore |-> disk[f], threw |-> threw,
     wrote |-> op = "save" /\ savesToDisk(sc[f]),
     prev |-> last.op, prevWrote |-> last.wrote]

CallLiveOffset(f) ==
    /\ nops < MaxOps
    /\ \E o \in 0..Len(sc[f].code) :
          /\ sc' = [sc EXCEPT ![f] = liveOffset(@, o)]
          /\ last' = Call("liveOffset", f, o, o, <<>>, FALSE)
    /\ nops' = nops + 1
    /\ UNCHANGED <<disk, cache>>
    /\ IdleUnchanged

CallReplace(f) ==
    /\ nops < MaxOps
    /\ \E from \in 0..Len(sc[f].code), to \in 0..Len(sc[f].code), text \in ApiReplacements :
          /\ from <= to
          /\ LET r == replace(sc[f], from, to, text)
             IN  /\ sc' = [sc EXCEPT ![f] = r.sc]
                 /\ last' = Call("replace", f, from, to, text, r.threw)
    /\ nops' = nops + 1
    /\ UNCHANGED <<disk, cache>>
    /\ IdleUnchanged

CallMd5hash(f) ==
    /\ nops < MaxOps
    /\ sc' = [sc EXCEPT ![f] = md5hash(@)]
    /\ last' = Call("md5hash", f, 0, 0, <<>>, FALSE)
    /\ nops' = nops + 1
    /\ UNCHANGED <<disk, cache>>
    /\ IdleUnchanged

CallSave(f) ==
    /\ nops < MaxOps
    /\ sc' = [sc EXCEPT ![f] = save(@)]
    /\ disk' = [disk EXCEPT ![f] = saveDisk(sc[f], @)]
    /\ last' = Call("save", f, 0, 0, <<>>, FALSE)
    /\ nops' = nops + 1
    /\ UNCHANGED cache
    /\ IdleUnchanged

Next ==
    \E f \in cache :
        \/ CallLiveOffset(f)
        \/ CallReplace(f)
        \/ CallMd5hash(f)
        \/ CallSave(f)

Spec == Init /\ [][Next]_vars

---------------------------------------------------------------------------
(* The files of a run.                                                     *)

Expect1 == <<"e", "x", "p", "e", "c", "t", "(", "1", ")", ".">>
Comment == <<"/", "*", "*", "/">>
\* The statement  expect(1).<name>(<inner>);
Stmt(name, inner) == Expect1 \o name \o <<"(">> \o inner \o <<")", ";">>

\* expect(1).toBe(2);expect(1).toEqual(/**/{k:
\* "f"} );expect(1).toBe(x);
\* expect(1).toBe();
TextA ==
    Stmt(ToBe, <<"2">>)
    \o Stmt(ToEqual, Comment \o <<"{", "k", ":", "\n", "\"", "f", "\"", "}", " ">>)
    \o Stmt(ToBe, <<"x">>) \o <<"\n">>
    \o Stmt(ToBe, <<>>)

\* expect(1).toBe('${x}');expect(1).toMatchSnapshot("f");
\* expect(1).toBe( "f"/**/);expect(1).toEqual(3);
\* (' stands for the backquote)
TextA2 ==
    Stmt(ToBe, <<BackQuote, "$", "{", "x", "}", BackQuote>>)
    \o Stmt(ToMatchSnapshot, <<"\"", "f", "\"">>) \o <<"\n">>
    \o Stmt(ToBe, <<" ", "\"", "f", "\"">> \o Comment)
    \o Stmt(ToEqual, <<"3">>)

\* expect(1).toBe(2);
TextB == Stmt(ToBe, <<"2">>)

\* expect(1).toBe('${e.toBe(1)}');      a call inside a template literal
TextNested ==
    Stmt(ToBe, <<BackQuote, "$", "{", "e", ".">> \o ToBe \o <<"(", "1", ")", "}", BackQuote>>)

\* expect(1).toBe(2;        does not parse
TextBad == Expect1 \o ToBe \o <<"(", "2", ";">>

\* The line and the column, counted from 1, of the character at an offset.
LineOf(code, offset) == 1 + Count(code, "\n", 1, offset)
ColumnOf(code, offset) ==
    LET breaks == {j \in 1..offset : code[j] = "\n"}
    IN  IF breaks = {} THEN offset + 1
        ELSE offset + 1 - (CHOOSE j \in breaks : \A k \in breaks : j >= k)

LineCount(code) == 1 + Count(code, "\n", 1, Len(code))

\* Where the test runner may say a failed step is: at the name of a member
\* call, or at line 1 column 8 (inside a receiver).
Locations(code) ==
    {[line |-> LineOf(code, i - 1), column |-> ColumnOf(code, i - 1)] : i \in CallSites(code)}
    \cup {[line |-> 1, column |-> 8]}

\* One line past the end of the file: where a step is said to be when the
\* file was shortened after the test was loaded.
PastTheEnd(code) == [line |-> LineCount(code) + 1, column |-> 1]

\* The values a failed step reports.
Values == {Number(1), String(<<"f", "o">>)}

---------------------------------------------------------------------------
(* SpecBatch: requests are added, then performRebaselines runs.            *)

\* pc: "collect"  addRebaseline calls arrive
\*     "loop"     inside the loop over the files and their sorted requests
\*     "done"     performRebaselines returned
\*     "unsatisfied"  it threw 'Failed to perform the following rebaselines'
\*     "failed"   it threw what parse threw

PayloadsOf(f) ==
    {[file |-> f, lineNumber |-> l.line, columnNumber |-> l.column,
      matcherName |-> name, newExpected |-> v] :
        l \in Locations(disk[f]) \cup (IF f = "a.spec.js" THEN {PastTheEnd(disk[f])} ELSE {}),
        name \in {ToBe, ToEqual}, v \in Values}

BatchPayloads == UNION {PayloadsOf(f) : f \in Files}

NoQueue == [allMatchers |-> <<>>, requests |-> <<>>]

InitBatch ==
    /\ disk \in {[f \in Files |-> IF f = "a.spec.js" THEN a ELSE b] :
                    a \in {TextA}, b \in {TextB, TextBad}}
    /\ sc = [f \in Files |-> NoSourceCode]
    /\ cache = {}
    /\ last = NoCall
    /\ nops = 0
    /\ store = <<>>
    /\ requests = <<>>
    /\ cur = 0
    /\ pc = "collect"
    /\ hist = [orig |-> disk, edits |-> <<>>, report |-> <<>>]
    /\ pending = <<>>
    /\ queue = NoQueue
    /\ unsatisfiedRequests = <<>>
    /\ log = <<>>
    /\ loads = NoLoads
    /\ artifacts = NoArtifacts
    /\ testInfo = NoTestInfo

BatchUnchanged == UNCHANGED <<last, nops, store, requests, log, loads, artifacts, testInfo>>

\* The number of requests in _requests.
RECURSIVE NumRequests(_)
NumRequests(map) == IF map = <<>> THEN 0 ELSE Len(Head(map).reqs) + NumRequests(Tail(map))

\* The test runner delivers a request.
AddRebaseline ==
    /\ pc = "collect"
    /\ \E request \in BatchPayloads :
          /\ pending' = addRebaseline(pending, request)
          /\ NumRequests(pending') <= MaxRequests
    /\ UNCHANGED <<disk, sc, cache, cur, pc, hist, queue, unsatisfiedRequests>>
    /\ BatchUnchanged

\* performRebaselines() with no request: it returns at once.
PerformNothing ==
    /\ pc = "collect"
    /\ pending = <<>>
    /\ pc' = "done"
    /\ UNCHANGED <<disk, sc, cache, cur, hist, pending, queue, unsatisfiedRequests>>
    /\ BatchUnchanged

\* The head of the loop over _requests for the next file: read it, extract
\* its matchers (parse may throw), sort its requests.
ReadFile ==
    /\ \/ pc = "collect" /\ pending # <<>>
       \/ pc = "loop" /\ queue.requests = <<>> /\ cur < Len(pending)
    /\ LET file == pending[cur + 1].file
           sourceCode == NewSourceCode(disk[file])
       IN  /\ sc' = [sc EXCEPT ![file] = sourceCode]
           /\ cache' = cache \cup {file}
           /\ cur' = cur + 1
           /\ IF Parses(sourceCode.code)
              THEN /\ queue' = [allMatchers |-> extractSourceCodeMatchers(sourceCode.code),
                                requests |-> SortRequests(pending[cur + 1].reqs)]
                   /\ pc' = "loop"
              ELSE /\ queue' = NoQueue
                   /\ pc' = "failed"
    /\ UNCHANGED <<disk, hist, pending, unsatisfiedRequests>>
    /\ BatchUnchanged

\* One turn of the loop over the sorted requests of the current file.
HandleRequest ==
    /\ pc = "loop"
    /\ queue.requests # <<>>
    /\ LET file == pending[cur].file
           request == Head(queue.requests)
           r == ProcessRequest(sc[file], queue.allMatchers, request)
       IN  /\ sc' = [sc EXCEPT ![file] = r.sc]
           /\ unsatisfiedRequests' =
                 IF r.unsatisfied THEN Append(unsatisfiedRequests, request)
                 ELSE unsatisfiedRequests
           /\ hist' = IF r.unsatisfied THEN hist
                      ELSE [hist EXCEPT !.edits = Append(@,
                               [file |-> file, from |-> r.from, to |-> r.to,
                                text |-> r.text, request |-> request,
                                before |-> sc[file].code])]
    /\ queue' = [queue EXCEPT !.requests = Tail(@)]
    /\ UNCHANGED <<disk, cache, cur, pc, pending>>
    /\ BatchUnchanged

\* The line of the aggregate error for an unsatisfied request.
ReportLine(request) == [file |-> request.file, line |-> request.lineNumber + 1]

\* After the last file: every SourceCode is saved, then the aggregate error
\* is thrown if a request was unsatisfied.
SaveAll ==
    /\ pc = "loop"
    /\ queue.requests = <<>>
    /\ cur = Len(pending)
    /\ disk' = [f \in Files |-> IF f \in cache THEN saveDisk(sc[f], disk[f]) ELSE disk[f]]
    /\ sc' = [f \in Files |-> IF f \in cache THEN save(sc[f]) ELSE sc[f]]
    /\ hist' = [hist EXCEPT !.report =
                  [k \in 1..Len(unsatisfiedRequests) |-> ReportLine(unsatisfiedRequests[k])]]
    /\ pc' = IF unsatisfiedRequests # <<>> THEN "unsatisfied" ELSE "done"
    /\ UNCHANGED <<cache, cur, pending, queue, unsatisfiedRequests>>
    /\ BatchUnchanged

NextBatch ==
    \/ AddRebaseline
    \/ PerformNothing
    \/ ReadFile
    \/ HandleRequest
    \/ SaveAll

SpecBatch == InitBatch /\ [][NextBatch]_vars

---------------------------------------------------------------------------
(* The interactive engine: src/unnamed/part_002.                           *)

\* The keys of supportedMatchers, and those whose handler is inlineReplace.
supportedMatchers == {ToBe, ToEqual, ToMatchSnapshot, ToHaveScreenshot}
InlineMatchers == {ToBe, ToEqual}

\* The call sites the CallExpression visitor of _ensureMatchers keeps: a
\* supported name, and no argument or a first argument that isLiteral.
InteractiveSites(code) ==
    {i \in CallSites(code) :
        /\ SiteName(code, i) \in supportedMatchers
        /\ (HasArg(code, i) => IsLiteralArg(code, i))}

\* The visitor's push for site i: three new cells (offset, argStart, argEnd)
\* or one when the call has no argument; a cell is kept by its index in
\* _liveOffsets, and 0 stands for undefined.
PushMatcher(s, i) ==
    LET n == Len(s.liveOffsets)
    IN  IF HasArg(s.code, i)
        THEN [s EXCEPT
                !.liveOffsets = @ \o <<i - 1, ArgStart(s.code, i), ArgEnd(s.code, i)>>,
                !.matchers = Append(@, [name |-> SiteName(s.code, i), offset |-> n + 1,
                                        argStart |-> n + 2, argEnd |-> n + 3])]
        ELSE [s EXCEPT
                !.liveOffsets = Append(@, i - 1),
                !.matchers = Append(@, [name |-> SiteName(s.code, i), offset |-> n + 1,
                                        argStart |-> 0, argEnd |-> 0])]

RECURSIVE PushMatchers(_, _)
PushMatchers(s, sites) ==
    IF sites = <<>> THEN s
    ELSE PushMatchers(PushMatcher(s, Head(sites)), Tail(sites))

\* _ensureMatchers() on a text that parses: the object afterwards.  The
\* visitor meets the sites in source order, which is the order of the sort.
ensureMatchers(s) ==
    IF s.hasMatchers THEN s
    ELSE PushMatchers([s EXCEPT !.hasMatchers = TRUE], Ascending(InteractiveSites(s.code)))

\* binarySearch(haystack, check) of part_002 over the matchers of s, with
\* check = matcher.offset.value - offset: an index counted from 0; when no
\* matcher is at the offset, the insertion point l.
RECURSIVE binarySearch(_, _, _, _)
binarySearch(s, offset, l, r) ==
    IF l >= r THEN l
    ELSE LET m == (l + r) \div 2
             result == s.liveOffsets[s.matchers[m + 1].offset] - offset
         IN  IF result < 0 THEN binarySearch(s, offset, m + 1, r)
             ELSE IF result > 0 THEN binarySearch(s, offset, l, m)
             ELSE m

\* findMatcher(name, offset) on an object whose matchers exist: the index
\* (from 1) of the matcher returned in _matchers, 0 for undefined.
findMatcher(s, name, offset) ==
    LET index == binarySearch(s, offset, 0, Len(s.matchers))
    IN  IF index < Len(s.matchers) /\ s.matchers[index + 1].name = name
        THEN index + 1
        ELSE 0

\* No request is taken to be outdated.  Not what the code does.
isOutdatedNever(s, rawRequest) == FALSE

\* We cannot construct outdated rebaseline requests: the test of fromJSON,
\* on the object after md5hash().
isOutdated(s, rawRequest) == s.md5 # rawRequest.md5hash

\* r1.sourceCode.filepath < r2.sourceCode.filepath
PathBefore(f, g) == f = "a.spec.js" /\ g = "b.spec.js"

\* The comparator of fromJSON's sort is negative or zero: r1 may stay before r2.
NotAfter(scs, r1, r2) ==
    IF r1.file # r2.file THEN PathBefore(r1.file, r2.file)
    ELSE scs[r1.file].liveOffsets[r1.offset] - scs[r2.file].liveOffsets[r2.offset] <= 0

\* Array.prototype.sort is stable: r goes behind the last element it may
\* not come before.
RECURSIVE InsertSorted(_, _, _)
InsertSorted(scs, sorted, r) ==
    IF sorted = <<>> THEN <<r>>
    ELSE IF NotAfter(scs, sorted[Len(sorted)], r) THEN Append(sorted, r)
    ELSE Append(InsertSorted(scs, SubSeq(sorted, 1, Len(sorted) - 1), r), sorted[Len(sorted)])

RECURSIVE SortLoaded(_, _)
SortLoaded(scs, reqs) ==
    IF reqs = <<>> THEN <<>>
    ELSE InsertSorted(scs, SortLoaded(scs, SubSeq(reqs, 1, Len(reqs) - 1)), reqs[Len(reqs)])

\* new RebaselineRequest(sourceCode, raw), the cell of its offset being n.
NewRequest(raw, n) ==
    [file |-> raw.file, matcherName |-> raw.matcherName, offset |-> n,
     value |-> raw.value, paths |-> raw.paths, id |-> raw.id, deleted |-> FALSE]

\* fromJSON over rawRequests from index k on: SourceCode.read through the
\* cache, md5hash(), the test for outdated requests, the constructor.
RECURSIVE LoadFrom(_, _, _, _, _, _)
LoadFrom(files, rawRequests, k, scs, read, reqs) ==
    IF k > Len(rawRequests) THEN [sc |-> scs, cache |-> read, requests |-> reqs]
    ELSE LET raw == rawRequests[k]
             sourceCode == md5hash(IF raw.file \in read THEN scs[raw.file]
                                   ELSE NewSourceCode(files[raw.file]))
             n == Len(sourceCode.liveOffsets) + 1
         IN  IF isOutdated(sourceCode, raw)
             THEN LoadFrom(files, rawRequests, k + 1,
                           [scs EXCEPT ![raw.file] = sourceCode],
                           read \cup {raw.file}, reqs)
             ELSE LoadFrom(files, rawRequests, k + 1,
                           [scs EXCEPT ![raw.file] = liveOffset(sourceCode, raw.offset)],
                           read \cup {raw.file}, Append(reqs, NewRequest(raw, n)))

\* RebaselineRequest.fromJSON(rawRequests) on the files of the disk.
fromJSON(files, rawRequests) ==
    LET loaded == LoadFrom(files, rawRequests, 1, [f \in Files |-> NoSourceCode], {}, <<>>)
    IN  [loaded EXCEPT !.requests = SortLoaded(loaded.sc, @)]

\* serialize() that writes the memo of the fingerprint as it stands, without
\* md5hash().  Not what the code does.
serializeMemo(scs, request) ==
    [matcherName |-> request.matcherName,
     offset |-> scs[request.file].liveOffsets[request.offset],
     value |-> request.value,
     file |-> request.file,
     md5hash |-> scs[request.file].md5,
     paths |-> request.paths,
     id |-> request.id]

\* serialize() of a request, on the objects after md5hash().
serialize(scs, request) ==
    [matcherName |-> request.matcherName,
     offset |-> scs[request.file].liveOffsets[request.offset],
     value |-> request.value,
     file |-> request.file,
     md5hash |-> md5hash(scs[request.file]).md5,
     paths |-> request.paths,
     id |-> request.id]

\* [...requests] after requests.delete(request): the requests not deleted, in order.
RECURSIVE Remaining(_)
Remaining(reqs) ==
    IF reqs = <<>> THEN <<>>
    ELSE IF Head(reqs).deleted THEN Remaining(Tail(reqs))
    ELSE <<Head(reqs)>> \o Remaining(Tail(reqs))

\* What saveRequests([...requests]) writes to ./rebaseline.json.
saveRequests(scs, reqs) ==
    LET rest == Remaining(reqs)
    IN  [k \in 1..Len(rest) |-> serialize(scs, rest[k])]

\* The objects after the md5hash() calls of saveRequests.
AfterSerialize(scs, reqs) ==
    [f \in Files |->
        IF \E k \in 1..Len(reqs) : ~reqs[k].deleted /\ reqs[k].file = f
        THEN md5hash(scs[f]) ELSE scs[f]]

\* Every answer is taken as a yes.  Not what the code does.
acceptsAnything(answer) == TRUE

\* answer.toLowerCase().includes('y')
accepts(answer) == \E k \in 1..Len(answer) : answer[k] \in {"y", "Y"}

\* inlineReplace that writes a string value without JSON.stringify.  Not
\* what the code does.
inlineReplaceUnquoted(s, matcher, request) ==
    IF matcher.argStart = 0 \/ matcher.argEnd = 0
    THEN [sc |-> s, threw |-> TRUE]
    ELSE replace(s, s.liveOffsets[matcher.argStart], s.liveOffsets[matcher.argEnd],
                 IF request.value.type = "number" THEN Stringify(request.value)
                 ELSE request.value.s)

\* inlineReplace(matcher, request): the object afterwards and whether it
\* threw ('cannot replace value', or what replace throws).
inlineReplace(s, matcher, request) ==
    IF matcher.argStart = 0 \/ matcher.argEnd = 0
    THEN [sc |-> s, threw |-> TRUE]
    ELSE replace(s, s.liveOffsets[matcher.argStart], s.liveOffsets[matcher.argEnd],
                 Stringify(request.value))

\* updateSnapshot that edits the text as inlineReplace does.  Not what the
\* code does.
updateSnapshotInline(s, matcher, request) == inlineReplace(s, matcher, request)

\* updateSnapshot(matcher, request): the Source File is not touched; it
\* throws when the request has no actualPath or snapshotPath.
updateSnapshot(s, matcher, request) ==
    [sc |-> s, threw |-> ~request.paths]

\* The files request.actualPath and request.snapshotPath name: those of the
\* request recorded as number id.
actualPath(request) == <<"actual", request.id>>
snapshotPath(request) == <<"snapshot", request.id>>

\* fs.promises.copyFile(src, dest) on the files.
copyFile(files, src, dest) == [files EXCEPT ![dest] = files[src]]

\* The files after the handler of the request's matcher returned: only
\* updateSnapshot touches them.
copied(files, request) ==
    IF request.matcherName \in InlineMatchers THEN files
    ELSE copyFile(files, actualPath(request), snapshotPath(request))

\* supportedMatchers[request.matcherName](matcher, request)
applyMatcher(s, matcher, request) ==
    IF request.matcherName \in InlineMatchers
    THEN inlineReplace(s, matcher, request)
    ELSE updateSnapshot(s, matcher, request)

\* A handler whose replace also moves the live offsets of the other files,
\* as if all files shared one list.  Not what the code does.
acceptRequestSharedOffsets(scs, matcher, request) ==
    LET r == applyMatcher(scs[request.file], matcher, request)
    IN  [scs |-> [g \in Files |->
                    IF g = request.file THEN r.sc
                    ELSE [scs[g] EXCEPT !.liveOffsets =
                             [k \in 1..Len(scs[g].liveOffsets) |-> scs[g].liveOffsets[k] + 1]]],
         threw |-> r.threw]

\* The handler on the objects of the run: it works on request.sourceCode,
\* the object of the request's file, and on no other.
acceptRequest(scs, matcher, request) ==
    LET r == applyMatcher(scs[request.file], matcher, request)
    IN  [scs |-> [scs EXCEPT ![request.file] = r.sc], threw |-> r.threw]

---------------------------------------------------------------------------
(* SpecInteractive: rebaselineCommand over a store and the files on disk,  *)
(* interrupted and run again at most MaxCrashes times.                     *)

\* pc: "start"    the command starts: it reads the store and the files
\*     "find"     head of the loop: findMatcher for requests[cur]
\*     "prompt"   the question is asked
\*     "persist"  the answer was yes and the matcher's handler returned
\*     "save"     the store was written
\*     "closed"   the loop is over, rl.close() was called
\*     "failed"   the command threw

\* A digest no text of the model has.
StaleMd5 == <<"md5", "stale">>

\* What the user may type at the prompt.
Answers == {<<"Y">>, <<"n", "o">>}

\* The (offset, name) of the requests a test run may have recorded for a
\* text: at the name of a call, with the name of that call; and inside the
\* receiver of the first call (offset 7).
RecordedAt(code) ==
    {[offset |-> i - 1, matcherName |-> SiteName(code, i)] : i \in CallSites(code)}
    \cup {[offset |-> 7, matcherName |-> ToBe]}

\* The digest and the value of a recorded request: recorded against the
\* text as it is, or against another text.
Stamps(files, f) ==
    {[md5hash |-> Md5(files[f]), value |-> v] :
        v \in IF f = "a.spec.js" THEN Values ELSE {Number(1)}}
    \cup {[md5hash |-> StaleMd5, value |-> Number(1)]}

\* The raw requests of a store over the files of the disk.
RawRequestsOf(files, f) ==
    {[matcherName |-> at.matcherName, offset |-> at.offset, file |-> f,
      md5hash |-> stamp.md5hash, value |-> stamp.value,
      paths |-> at.matcherName \notin InlineMatchers, id |-> 0] :
        at \in RecordedAt(files[f]), stamp \in Stamps(files, f)}

RawRequests(files) == UNION {RawRequestsOf(files, f) : f \in Files}

\* The stores of at most MaxRequests requests; id is the request's place.
Stores(files) ==
    UNION {{[k \in 1..n |-> [raws[k] EXCEPT !.id = k]] :
               raws \in [1..n -> RawRequests(files)]} : n \in 0..MaxRequests}

\* The files the recorded requests name: what the failed step received,
\* and the snapshot it was compared with.
ArtifactPaths == {<<kind, id>> : kind \in {"actual", "snapshot"}, id \in 1..MaxRequests}
RecordedArtifacts ==
    [p \in ArtifactPaths |-> IF p[1] = "actual" THEN <<"received", p[2]>> ELSE <<"expected">>]

NoStep ==
    [op |-> "none", answer |-> <<>>, request |-> 0, matcher |-> 0, file |-> "a.spec.js",
     before |-> NoSourceCode, allBefore |-> <<>>, diskBefore |-> <<>>, storeBefore |-> <<>>,
     threw |-> FALSE]

Step(op, answer, matcher, threw) ==
    [op |-> op, answer |-> answer, request |-> cur, matcher |-> matcher,
     file |-> requests[cur].file, before |-> sc[requests[cur].file], allBefore |-> sc,
     diskBefore |-> disk, storeBefore |-> store, threw |-> threw]

\* hist: orig     the files when the first run starts
\*       loaded   the store and the files the current run loaded from
\*       asked    the ids of the requests the current run has prompted for
\*       accepted the ids of the requests the current run has applied
\*       edits    the requests applied so far, in any run: file, id, name,
\*                matcher, value
\*       stopped  where the previous run stopped ("" when there was none)
\*       inflight the id of the request the previous run was handling
\*                (0: none) and inflightFile its file
\*       unsaved  the files whose text in memory was not on disk then
\*       owed     the ids the previous run had loaded and neither had
\*                accepted nor was handling when it stopped
NoHistory(files) ==
    [orig |-> files, loaded |-> [store |-> <<>>, disk |-> files],
     asked |-> {}, accepted |-> {}, edits |-> <<>>,
     stopped |-> "", inflight |-> 0, inflightFile |-> "", unsaved |-> {}, owed |-> {}]

InitInteractive ==
    /\ disk \in {[f \in Files |-> IF f = "a.spec.js" THEN a ELSE b] :
                    a \in {TextA, TextA2, TextNested}, b \in {TextB}}
    /\ store \in Stores(disk)
    /\ sc = [f \in Files |-> NoSourceCode]
    /\ cache = {}
    /\ last = NoStep
    /\ nops = 0
    /\ requests = <<>>
    /\ cur = 0
    /\ pc = "start"
    /\ hist = NoHistory(disk)
    /\ pending = <<>>
    /\ queue = NoQueue
    /\ unsatisfiedRequests = <<>>
    /\ log = <<>>
    /\ loads = NoLoads
    /\ artifacts = RecordedArtifacts
    /\ testInfo = NoTestInfo

InteractiveUnchanged == UNCHANGED <<pending, queue, unsatisfiedRequests, log, loads, testInfo>>

\* The loop moves on to the request after requests[cur], or ends.
Advance ==
    /\ cur' = cur + 1
    /\ pc' = IF cur < Len(requests) THEN "find" ELSE "closed"

\* rebaselineCommand up to the loop: the store is read and fromJSON run.
Load ==
    /\ pc = "start"
    /\ LET loaded == fromJSON(disk, store)
       IN  /\ sc' = loaded.sc
           /\ cache' = loaded.cache
           /\ requests' = loaded.requests
           /\ cur' = 1
           /\ pc' = IF loaded.requests = <<>> THEN "closed" ELSE "find"
    /\ hist' = [hist EXCEPT !.loaded = [store |-> store, disk |-> disk],
                            !.asked = {}, !.accepted = {}]
    /\ last' = NoStep
    /\ UNCHANGED <<disk, store, nops>>
    /\ UNCHANGED artifacts
    /\ InteractiveUnchanged

\* The head of the loop's body: findMatcher (which may parse the file), the
\* check of its result, the code frame and the question.
Ask ==
    /\ pc = "find"
    /\ LET request == requests[cur]
           f == request.file
       IN  IF ~sc[f].hasMatchers /\ ~Parses(sc[f].code)
           THEN /\ pc' = "failed"
                /\ last' = Step("find", <<>>, 0, TRUE)
                /\ UNCHANGED <<sc, hist>>
           ELSE LET s == ensureMatchers(sc[f])
                    matcher == findMatcher(s, request.matcherName, s.liveOffsets[request.offset])
                IN  /\ sc' = [sc EXCEPT ![f] = s]
                    /\ last' = Step("find", <<>>, matcher, matcher = 0)
                    /\ pc' = IF matcher = 0 THEN "failed" ELSE "prompt"
                    /\ hist' = IF matcher = 0 THEN hist
                               ELSE [hist EXCEPT !.asked = @ \cup {request.id}]
    /\ UNCHANGED <<disk, store, cache, requests, cur, nops>>
    /\ UNCHANGED artifacts
    /\ InteractiveUnchanged

\* The user answers; on yes the matcher's handler runs.
Answer ==
    /\ pc = "prompt"
    /\ \E answer \in Answers :
          LET request == requests[cur]
              f == request.file
              matcher == sc[f].matchers[last.matcher]
          IN  IF accepts(answer)
              THEN LET r == acceptRequest(sc, matcher, request)
                   IN  /\ sc' = r.scs
                       /\ last' = Step("accept", answer, last.matcher, r.threw)
                       /\ pc' = IF r.threw THEN "failed" ELSE "persist"
                       /\ artifacts' = IF r.threw THEN artifacts
                                       ELSE copied(artifacts, request)
                       /\ hist' = IF r.threw THEN hist
                                  ELSE [hist EXCEPT
                                          !.accepted = @ \cup {request.id},
                                          !.edits = Append(@, [file |-> f, id |-> request.id,
                                                               name |-> request.matcherName,
                                                               matcher |-> last.matcher,
                                                               value |-> request.value])]
                       /\ UNCHANGED cur
              ELSE /\ last' = Step("decline", answer, last.matcher, FALSE)
                   /\ Advance
                   /\ UNCHANGED <<sc, hist, artifacts>>
    /\ UNCHANGED <<disk, store, cache, requests, nops>>
    /\ InteractiveUnchanged

\* requests.delete(request); await saveRequests([...requests])
SaveRequests ==
    /\ pc = "persist"
    /\ LET rest == [requests EXCEPT ![cur].deleted = TRUE]
       IN  /\ requests' = rest
           /\ store' = saveRequests(sc, rest)
           /\ sc' = AfterSerialize(sc, rest)
    /\ pc' = "save"
    /\ UNCHANGED <<disk, cache, cur, last, nops, hist>>
    /\ UNCHANGED artifacts
    /\ InteractiveUnchanged

\* await request.sourceCode.save(), and the loop moves on.
SaveFile ==
    /\ pc = "save"
    /\ LET f == requests[cur].file
       IN  /\ disk' = [disk EXCEPT ![f] = saveDisk(sc[f], @)]
           /\ sc' = [sc EXCEPT ![f] = save(@)]
    /\ Advance
    /\ UNCHANGED <<store, cache, requests, last, nops, hist>>
    /\ UNCHANGED artifacts
    /\ InteractiveUnchanged

\* The ids of the requests the run holds and has not deleted.
Unresolved == {requests[k].id : k \in {j \in 1..Len(requests) : ~requests[j].deleted}}

\* The process ends where it is (interrupted, or after it returned or
\* threw) and the command is started again: what was in memory is gone.
Restart ==
    /\ pc # "start"
    /\ nops < MaxCrashes
    /\ nops' = nops + 1
    /\ pc' = "start"
    /\ sc' = [f \in Files |-> NoSourceCode]
    /\ cache' = {}
    /\ requests' = <<>>
    /\ cur' = 0
    /\ last' = NoStep
    /\ hist' = LET inflight == IF pc \in {"prompt", "persist", "save"}
                               THEN requests[cur].id ELSE 0
               IN  [hist EXCEPT !.stopped = pc,
                                !.inflight = inflight,
                                !.inflightFile = IF inflight = 0 THEN "" ELSE requests[cur].file,
                                !.unsaved = {f \in cache : sc[f].code # disk[f]},
                                !.owed = Unresolved \ {inflight}]
    /\ UNCHANGED <<disk, store>>
    /\ UNCHANGED artifacts
    /\ InteractiveUnchanged

NextInteractive ==
    \/ Load
    \/ Ask
    \/ Answer
    \/ SaveRequests
    \/ SaveFile
    \/ Restart

SpecInteractive == InitInteractive /\ [][NextInteractive]_vars

---------------------------------------------------------------------------
(* SpecRecord: a test run reports its steps to RebaselineLog, then save()  *)
(* writes the store.                                                       *)

\* positionToOffset that does not step over the line ending.  Not what the
\* code does.
positionToOffsetOnLineEnding(s, lineNumber, columnNumber) ==
    IF lineNumber = 0 THEN Num(columnNumber)
    ELSE IF lineNumber - 1 \in 0..(Len(s.lineEndings) - 1)
         THEN Num(s.lineEndings[lineNumber] + columnNumber)
         ELSE NaN

\* positionToOffset(lineNumber, columnNumber) of part_002, both counted
\* from 0: the same arithmetic as in the batch engine.
positionToOffset(s, lineNumber, columnNumber) ==
    batchPositionToOffset(s, lineNumber, columnNumber)

\* binarySearch(this._lineEndings, le => le - offset) of part_002 between l
\* and r: an index counted from 0, the insertion point when no line ends
\* at the offset.
RECURSIVE searchLineEndings(_, _, _, _)
searchLineEndings(s, offset, l, r) ==
    IF l >= r THEN l
    ELSE LET m == (l + r) \div 2
             result == s.lineEndings[m + 1] - offset
         IN  IF result < 0 THEN searchLineEndings(s, offset, m + 1, r)
             ELSE IF result > 0 THEN searchLineEndings(s, offset, l, m)
             ELSE m

\* offsetToPosition(offset): [lineNumber, columnNumber], both counted from 0.
offsetToPosition(s, offset) ==
    LET lineNumber == searchLineEndings(s, offset, 0, Len(s.lineEndings))
        columnNumber == IF lineNumber = 0 THEN offset
                        ELSE offset - s.lineEndings[lineNumber] - 1
    IN  <<lineNumber, columnNumber>>

\* The steps a test run may end: failed or not, with or without a location
\* (1-based line and column, inside the file).
TestSteps ==
    UNION {{[error |-> e, hasLocation |-> h, file |-> f, line |-> l.line, column |-> l.column] :
               e \in BOOLEAN, h \in BOOLEAN, l \in Locations(disk[f])} : f \in Files}

\* What expect() attaches to a step for the log: nothing, or the matcher
\* name and the value received.
RebaselineInfos ==
    {[present |-> FALSE, matcherName |-> ToBe, value |-> Number(1)]}
    \cup {[present |-> TRUE, matcherName |-> ToBe, value |-> v] : v \in Values}

NoLog == [failedSteps |-> <<>>, rebaselineInfos |-> <<>>]

\* onStepEnd(step, rebaselineInfo) on the log.
onStepEnd(l, step, rebaselineInfo) ==
    IF ~step.error \/ ~rebaselineInfo.present THEN l
    ELSE [failedSteps |-> Append(l.failedSteps, step),
          rebaselineInfos |-> Append(l.rebaselineInfos, rebaselineInfo)]

\* fromFailedSteps from step k on: a step without location is skipped;
\* every other step yields a request, whatever was pushed before it.
RECURSIVE FromFailedSteps(_, _, _, _, _, _)
FromFailedSteps(files, l, k, scs, read, reqs) ==
    IF k > Len(l.failedSteps) THEN [sc |-> scs, cache |-> read, requests |-> reqs]
    ELSE LET step == l.failedSteps[k]
             rebaselineInfo == l.rebaselineInfos[k]
         IN  IF ~step.hasLocation
             THEN FromFailedSteps(files, l, k + 1, scs, read, reqs)
             ELSE LET sourceCode == md5hash(IF step.file \in read THEN scs[step.file]
                                            ELSE NewSourceCode(files[step.file]))
                      raw == [matcherName |-> rebaselineInfo.matcherName,
                              file |-> step.file,
                              offset |-> positionToOffset(sourceCode, step.line - 1,
                                                          step.column - 1).n,
                              md5hash |-> sourceCode.md5,
                              value |-> rebaselineInfo.value,
                              paths |-> FALSE,
                              id |-> k]
                      n == Len(sourceCode.liveOffsets) + 1
                  IN  FromFailedSteps(files, l, k + 1,
                                      [scs EXCEPT ![step.file] = liveOffset(sourceCode, raw.offset)],
                                      read \cup {step.file},
                                      Append(reqs, NewRequest(raw, n)))

\* RebaselineRequest.fromFailedSteps(failedSteps, rebaselineInfos)
fromFailedSteps(files, l) ==
    FromFailedSteps(files, l, 1, [f \in Files |-> NoSourceCode], {}, <<>>)

InitRecord ==
    /\ disk = [f \in Files |-> IF f = "a.spec.js" THEN TextA ELSE TextB]
    /\ sc = [f \in Files |-> NoSourceCode]
    /\ cache = {}
    /\ last = NoStep
    /\ nops = 0
    /\ store = <<>>
    /\ requests = <<>>
    /\ cur = 0
    /\ pc = "record"
    /\ hist = <<>>
    /\ pending = <<>>
    /\ queue = NoQueue
    /\ unsatisfiedRequests = <<>>
    /\ log = NoLog
    /\ loads = NoLoads
    /\ artifacts = NoArtifacts
    /\ testInfo = NoTestInfo

RecordUnchanged ==
    UNCHANGED <<disk, last, nops, cur, hist, pending, queue, unsatisfiedRequests, loads, artifacts,
                testInfo>>

\* A step of the test run ends.
OnStepEnd ==
    /\ pc = "record"
    /\ Len(log.failedSteps) < MaxRequests
    /\ \E step \in TestSteps, rebaselineInfo \in RebaselineInfos :
          log' = onStepEnd(log, step, rebaselineInfo)
    /\ UNCHANGED <<sc, cache, store, requests, pc>>
    /\ RecordUnchanged

\* RebaselineLog.save() at the end of the test run.
LogSave ==
    /\ pc = "record"
    /\ LET made == fromFailedSteps(disk, log)
       IN  /\ sc' = made.sc
           /\ cache' = made.cache
           /\ requests' = made.requests
           /\ store' = saveRequests(made.sc, made.requests)
    /\ pc' = "saved"
    /\ UNCHANGED log
    /\ RecordUnchanged

NextRecord ==
    \/ OnStepEnd
    \/ LogSave

SpecRecord == InitRecord /\ [][NextRecord]_vars

---------------------------------------------------------------------------
(* SpecRead: callers of SourceCode.read whose loads are in flight together.

   loads.cache is the Map handed to read (path -> promise, 0 = no entry),
   loads.shared tells whether the callers hand one in; a promise is
   "scheduled" until its callback runs and calls readFile, "reading" until
   readFile completes, and "resolved" with the SourceCode object it made.
   Objects are told apart by the number of their creation.  A caller
   remembers the state in which it found the promise it awaits ("new" when
   it made the promise itself).                                           *)

NoPromise == 0

\* cache.set left out.  Not what the code does.
cacheSetSkipped(sourceCodesCache, filepath, code) == sourceCodesCache

\* cache.set(filepath, code)
cacheSet(sourceCodesCache, filepath, code) ==
    [sourceCodesCache EXCEPT ![filepath] = code]

\* SourceCode.read(filepath, cache) as called by caller c: it runs to its
\* return without giving up control.
read(l, c) ==
    LET filepath == l.callers[c].file
        code     == IF l.shared THEN l.cache[filepath] ELSE NoPromise
    IN  IF code # NoPromise
        THEN [l EXCEPT !.callers[c] = [@ EXCEPT !.at = "awaiting", !.promise = code,
                                                !.found = l.promises[code].state]]
        ELSE LET made == Len(l.promises) + 1
             IN  [l EXCEPT !.promises = Append(@, [file |-> filepath, state |-> "scheduled",
                                                   sourceCode |-> 0, code |-> <<>>]),
                           !.cache = IF l.shared THEN cacheSet(@, filepath, made) ELSE @,
                           !.callers[c] = [@ EXCEPT !.at = "awaiting", !.promise = made,
                                                    !.found = "new"]]

InitRead ==
    /\ disk = [f \in Files |-> IF f = "a.spec.js" THEN TextA ELSE TextB]
    /\ sc = [f \in Files |-> NoSourceCode]
    /\ cache = {}
    /\ last = NoStep
    /\ nops = 0
    /\ store = <<>>
    /\ requests = <<>>
    /\ cur = 0
    /\ pc = "read"
    /\ hist = <<>>
    /\ pending = <<>>
    /\ queue = NoQueue
    /\ unsatisfiedRequests = <<>>
    /\ log = NoLog
    /\ artifacts = NoArtifacts
    /\ testInfo = NoTestInfo
    /\ \E shared \in BOOLEAN, files \in [1..MaxCallers -> Files] :
          loads = [shared    |-> shared,
                   cache     |-> [f \in Files |-> NoPromise],
                   promises  |-> <<>>,
                   callers   |-> [c \in 1..MaxCallers |->
                                     [file |-> files[c], at |-> "start", promise |-> NoPromise,
                                      found |-> "none", sourceCode |-> 0]],
                   reads     |-> [f \in Files |-> 0],
                   made      |-> 0]

ReadUnchanged ==
    UNCHANGED <<disk, sc, cache, last, nops, store, requests, cur, pc, hist,
                pending, queue, unsatisfiedRequests, log, artifacts, testInfo>>

\* A caller calls SourceCode.read and awaits what it returns.
ReadCall ==
    /\ pc = "read"
    /\ \E c \in 1..MaxCallers :
          /\ loads.callers[c].at = "start"
          /\ loads' = read(loads, c)
    /\ ReadUnchanged

\* The callback of Promise.resolve().then runs and calls readFile.
ReadFileIssued ==
    /\ pc = "read"
    /\ \E p \in 1..Len(loads.promises) :
          /\ loads.promises[p].state = "scheduled"
          /\ loads' = [loads EXCEPT !.promises[p].state = "reading",
                                    !.reads[loads.promises[p].file] = @ + 1]
    /\ ReadUnchanged

\* readFile completes: new SourceCode(filepath, text) resolves the promise.
ReadFileDone ==
    /\ pc = "read"
    /\ \E p \in 1..Len(loads.promises) :
          /\ loads.promises[p].state = "reading"
          /\ loads' = [loads EXCEPT !.promises[p] = [@ EXCEPT !.state = "resolved",
                                                              !.sourceCode = loads.made + 1,
                                                              !.code = disk[loads.promises[p].file]],
                                    !.made = @ + 1]
    /\ ReadUnchanged

\* A caller that awaits a resolved promise goes on with its SourceCode.
ReadResumed ==
    /\ pc = "read"
    /\ \E c \in 1..MaxCallers :
          /\ loads.callers[c].at = "awaiting"
          /\ loads.promises[loads.callers[c].promise].state = "resolved"
          /\ loads' = [loads EXCEPT !.callers[c] =
                          [@ EXCEPT !.at = "resumed",
                                    !.sourceCode = loads.promises[loads.callers[c].promise].sourceCode]]
    /\ ReadUnchanged

NextRead ==
    \/ ReadCall
    \/ ReadFileIssued
    \/ ReadFileDone
    \/ ReadResumed

SpecRead == InitRead /\ [][NextRead]_vars

---------------------------------------------------------------------------
(* SpecMode: a test that is run again while its project grants retries,    *)
(* and asks for its update modes at any attempt.                           *)
(* src/packages/playwright-test/src/rebaseline.ts 26-34.                   *)

Modes == {"all", "none", "missing"}

\* updateSnapshotsMode(testInfo)
updateSnapshotsMode(t) ==
    LET updateSnapshots == t.config.updateSnapshots
    IN  IF updateSnapshots = "missing" /\ t.retry < t.project.retries
        THEN "none" ELSE updateSnapshots

\* updateMatchersMode that also gives 'none' on the last attempt.  Not what
\* the code does.
updateMatchersModeLastToo(t) ==
    LET rebaselineMatchers == t.config.rebaselineMatchers
    IN  IF rebaselineMatchers = "missing" /\ t.retry <= t.project.retries
        THEN "none" ELSE rebaselineMatchers

\* updateMatchersMode(testInfo)
updateMatchersMode(t) ==
    LET rebaselineMatchers == t.config.rebaselineMatchers
    IN  IF rebaselineMatchers = "missing" /\ t.retry < t.project.retries
        THEN "none" ELSE rebaselineMatchers

\* last: the function called last, the test it was given, what it returned.
NoModeCall == [op |-> "none", testInfo |-> NoTestInfo, configured |-> "none", result |-> "none"]

InitMode ==
    /\ testInfo \in {[config |-> [updateSnapshots |-> s, rebaselineMatchers |-> m],
                       project |-> [retries |-> n], retry |-> 0] :
                          s \in Modes, m \in Modes, n \in 0..MaxRetries}
    /\ last = NoModeCall
    /\ pc = "test"
    /\ disk = [f \in Files |-> <<>>]
    /\ sc = [f \in Files |-> NoSourceCode]
    /\ cache = {}
    /\ nops = 0
    /\ store = <<>>
    /\ requests = <<>>
    /\ cur = 0
    /\ hist = <<>>
    /\ pending = <<>>
    /\ queue = NoQueue
    /\ unsatisfiedRequests = <<>>
    /\ log = NoLog
    /\ loads = NoLoads
    /\ artifacts = NoArtifacts

ModeUnchanged ==
    UNCHANGED <<disk, sc, cache, nops, store, requests, cur, pc, hist, pending, queue,
                unsatisfiedRequests, log, loads, artifacts>>

CallUpdateSnapshotsMode ==
    /\ last' = [op |-> "updateSnapshotsMode", testInfo |-> testInfo,
                configured |-> testInfo.config.updateSnapshots,
                result |-> updateSnapshotsMode(testInfo)]
    /\ UNCHANGED testInfo
    /\ ModeUnchanged

CallUpdateMatchersMode ==
    /\ last' = [op |-> "updateMatchersMode", testInfo |-> testInfo,
                configured |-> testInfo.config.rebaselineMatchers,
                result |-> updateMatchersMode(testInfo)]
    /\ UNCHANGED testInfo
    /\ ModeUnchanged

\* The attempt failed and the project grants another one.
RetryTest ==
    /\ testInfo.retry < testInfo.project.retries
    /\ testInfo' = [testInfo EXCEPT !.retry = @ + 1]
    /\ UNCHANGED last
    /\ ModeUnchanged

NextMode ==
    \/ CallUpdateSnapshotsMode
    \/ CallUpdateMatchersMode
    \/ RetryTest

SpecMode == InitMode /\ [][NextMode]_vars

---------------------------------------------------------------------------
(* Claims about SourceCode, checked under Spec.                            *)

\* The cells of the last call's file: their indexes, and the value of cell i
\* before and after the call.
LastCells == 1..Len(last.before.liveOffsets)
Before(i) == last.before.liveOffsets[i]
After(i) == sc[last.file].liveOffsets[i]
LastDelta == Len(last.text) - (last.to - last.from)

\* C1 as stated: after replace(a, b, s), a Live Offset of value p is
\* p + len(s) - (b - a) when b <= p, and p when a >= p, for every a <= b,
\* the zero-width edit a = b = p included.
C1_AsStated ==
    last.op = "replace" =>
        \A i \in LastCells :
            /\ last.to <= Before(i) => After(i) = Before(i) + LastDelta
            /\ last.from >= Before(i) => After(i) = Before(i)

\* C1 as amended: after replace(a, b, s) with a <= b, a Live Offset of value
\* p <= a keeps its value p (the zero-width edit a = b = p included: it is
\* not shifted); when replace returns without the internal error, a Live
\* Offset of value p with a < p and b <= p is p + len(s) - (b - a).
C1_Rebasing ==
    last.op = "replace" =>
        \A i \in LastCells :
            /\ last.from >= Before(i) => After(i) = Before(i)
            /\ (~last.threw /\ last.from < Before(i) /\ last.to <= Before(i))
                  => After(i) = Before(i) + LastDelta

\* C1's case: a replace that returned, with one offset at the place of a
\* zero-width insertion and another one behind the edit.
C1_Witness ==
    /\ last.op = "replace"
    /\ ~last.threw
    /\ last.from = last.to
    /\ Len(last.text) > 0
    /\ \E i \in LastCells : Before(i) = last.from /\ After(i) = Before(i)
    /\ \E i \in LastCells : Before(i) > last.from /\ After(i) = Before(i) + LastDelta

\* C11: replace(a, b, s) fails with the internal offset error when a Live
\* Offset of the file has a value p with a < p < b, and never fails with it
\* when no registered Live Offset lies strictly inside (a, b).
C11_ThrowsIffInside ==
    last.op = "replace" =>
        (last.threw <=> \E i \in LastCells : last.from < Before(i) /\ Before(i) < last.to)

\* C11's case: a replace that failed because of a cell strictly inside its
\* range, while another cell sat at an end of the range.
C11_Witness ==
    /\ last.op = "replace"
    /\ last.threw
    /\ \E i \in LastCells : last.from < Before(i) /\ Before(i) < last.to
    /\ \E i \in LastCells : Before(i) = last.from \/ Before(i) = last.to

\* C20: after any sequence of calls, the memo of md5hash is empty or the
\* hash of the current text, and md5hash() returns the hash of the current
\* text: a value memoized before a replace is never returned after it.
C20_Md5OfCurrentText ==
    /\ \A f \in cache : sc[f].md5 \in {NoMd5, Md5(sc[f].code)}
    /\ last.op = "md5hash" => sc[last.file].md5 = Md5(sc[last.file].code)

\* C20's case: md5hash() was called with its memo empty after a replace
\* had changed the text, and returned the hash of the text as changed.
C20_Witness ==
    /\ last.op = "md5hash"
    /\ last.before.md5 = NoMd5
    /\ last.before.hadChanges
    /\ sc[last.file].code # disk[last.file]
    /\ sc[last.file].md5 = Md5(sc[last.file].code)

\* C21 as stated: in every state the dirty flag of a SourceCode object is
\* true exactly when its text differs from the text on disk.
C21_AsStated ==
    \A f \in cache : sc[f].hadChanges <=> sc[f].code # disk[f]

\* C21: the dirty flag is true whenever the text differs from the text on
\* disk; every replace sets it, also one that leaves the text as it was,
\* and save leaves it cleared with the text on disk.
C21_DirtyCoversChange ==
    /\ \A f \in cache : sc[f].code # disk[f] => sc[f].hadChanges
    /\ last.op = "replace" => sc[last.file].hadChanges
    /\ last.op = "save" => ~sc[last.file].hadChanges /\ sc[last.file].code = disk[last.file]

\* C21's case: a replace has changed the text and the flag is set, the
\* text on disk being still the old one.
C21_Witness ==
    /\ last.op = "replace"
    /\ sc[last.file].code # last.before.code
    /\ sc[last.file].code # disk[last.file]
    /\ sc[last.file].hadChanges
    /\ ~last.before.hadChanges

\* C22: save() writes the text to disk when the object is dirty and
\* leaves it clean; when the object is not dirty it writes nothing and
\* changes nothing; of two save() calls in a row at most one writes.
C22_SaveWritesWhenDirty ==
    last.op = "save" =>
        /\ ~sc[last.file].hadChanges
        /\ last.before.hadChanges
              => last.wrote /\ disk[last.file] = last.before.code
        /\ ~last.before.hadChanges
              => ~last.wrote /\ disk[last.file] = last.diskBefore /\ sc[last.file] = last.before
        /\ last.prev = "save" => ~(last.wrote /\ last.prevWrote)

\* C22's case: a save() that wrote the changed text was followed at once by
\* a save() that wrote nothing.
C22_Witness ==
    /\ last.op = "save"
    /\ last.prev = "save"
    /\ last.prevWrote
    /\ ~last.wrote
    /\ disk[last.file] = sc[last.file].code

\* The lines of a text, counted from 0, and the length of each.
LinesOf(code) == 0..Len(LineEndings(code))
LineStart(code, line) == IF line = 0 THEN 0 ELSE LineEndings(code)[line] + 1
LineLength(code, line) ==
    (IF line < Len(LineEndings(code)) THEN LineEndings(code)[line + 1] ELSE Len(code))
    - LineStart(code, line)

\* C24: for a text with the table of line endings the constructor builds
\* from it, and every line and column within the text, counted from 0,
\* positionToOffset gives an offset that offsetToPosition turns back into
\* the same line and column.
C24_PositionRoundTrip ==
    \A f \in cache :
        sc[f].lineEndings = LineEndings(sc[f].code) =>
            \A line \in LinesOf(sc[f].code) :
                \A column \in 0..LineLength(sc[f].code, line) :
                    LET offset == positionToOffset(sc[f], line, column)
                    IN  /\ ~offset.nan
                        /\ offsetToPosition(sc[f], offset.n) = <<line, column>>

\* C24's case: a text of two lines, the second of them not empty, with the
\* table of its line endings.
C24_Witness ==
    \E f \in cache :
        /\ sc[f].lineEndings = LineEndings(sc[f].code)
        /\ Len(sc[f].lineEndings) = 1
        /\ LineLength(sc[f].code, 1) > 1
        /\ offsetToPosition(sc[f], Len(sc[f].code)) = <<1, LineLength(sc[f].code, 1)>>

\* C34: a replace that succeeds keeps the relative order of the Live
\* Offsets of the file: two cells with x <= y before have x <= y after, and
\* when the text put in is not empty two cells with x < y before have
\* x < y after.
C34_OrderPreserved ==
    (last.op = "replace" /\ ~last.threw) =>
        \A i \in LastCells : \A j \in LastCells :
            /\ Before(i) <= Before(j) => After(i) <= After(j)
            /\ (last.text # <<>> /\ Before(i) < Before(j)) => After(i) < After(j)

\* C34's case: a replace with a text that is not empty has succeeded on a
\* file with two cells in strict order, and moved the second only.
C34_Witness ==
    /\ last.op = "replace"
    /\ ~last.threw
    /\ last.text # <<>>
    /\ last.from < last.to
    /\ \E i \in LastCells : \E j \in LastCells :
          /\ Before(i) < Before(j)
          /\ After(i) = Before(i)
          /\ After(j) # Before(j)

\* C35: when replace fails with 'internal error: LiveOffset was removed due
\* to edit operation', the Source File is as it was before the call: text,
\* dirty flag, fingerprint and every Live Offset.
C35_FailedReplaceLeavesFile ==
    (last.op = "replace" /\ last.threw) => sc[last.file] = last.before

---------------------------------------------------------------------------
(* Claims about batch apply, checked under SpecBatch.                      *)

AllRequests == UNION {Range(pending[k].reqs) : k \in 1..Len(pending)}

\* Request r is at the name of the call at site i of the text, and bears its name.
IsAt(code, r, i) ==
    /\ LineOf(code, i - 1) = r.lineNumber
    /\ ColumnOf(code, i - 1) = r.columnNumber
    /\ SiteName(code, i) = r.matcherName

\* Request r targets an eligible matcher of the original text of its file.
Targets(r, i) ==
    /\ Parses(hist.orig[r.file])
    /\ i \in BatchSites(hist.orig[r.file])
    /\ IsAt(hist.orig[r.file], r, i)

TargetOf(r) == CHOOSE i \in CallSites(hist.orig[r.file]) : Targets(r, i)
Satisfiable(r) == \E i \in CallSites(hist.orig[r.file]) : Targets(r, i)

\* The text from index j on, read from left to right, with each range
\* lo..hi of edits (indexes of the text, disjoint, at or after j) replaced
\* by the range's text.
RECURSIVE Rewrite(_, _, _)
Rewrite(code, j, edits) ==
    IF edits = {} THEN SubSeq(code, j, Len(code))
    ELSE LET edit == CHOOSE e \in edits : \A q \in edits : e.lo <= q.lo
         IN  SubSeq(code, j, edit.lo - 1) \o edit.text
             \o Rewrite(code, edit.hi + 1, edits \ {edit})

\* What applying request r means: its target's argument becomes the JSON
\* text of its value; a call without argument becomes name(JSON text).
EditOf(r) ==
    LET code == hist.orig[r.file]
        i == TargetOf(r)
    IN  IF HasArg(code, i)
        THEN [lo |-> ArgStart(code, i) + 1, hi |-> ArgEnd(code, i),
              text |-> Stringify(r.newExpected)]
        ELSE [lo |-> i, hi |-> SiteClose(code, i),
              text |-> r.matcherName \o <<"(">> \o Stringify(r.newExpected) \o <<")">>]

\* The original text of file f with the satisfiable requests of f applied.
Expected(f) ==
    Rewrite(hist.orig[f], 1, {EditOf(r) : r \in {q \in AllRequests : q.file = f /\ Satisfiable(q)}})

Finished == pc \in {"done", "unsatisfied"}

\* C3: after batch apply of requests that each target a distinct eligible
\* matcher having an argument, performRebaselines returns normally and the
\* saved text of every file is the original text with exactly the targeted
\* argument ranges replaced by the JSON text of the requests' values; all
\* other characters, those between the parentheses included, are unchanged.
C3_BatchApply ==
    (\A r \in AllRequests :
        Satisfiable(r) /\ HasArg(hist.orig[r.file], TargetOf(r)))
    => /\ pc \notin {"failed", "unsatisfied"}
       /\ pc = "done" => \A f \in Files : disk[f] = Expected(f)

\* C3's case: two requests of one file were applied and saved, one of them
\* changing the length of the text before the other's place.
C3_Witness ==
    /\ pc = "done"
    /\ \E r1 \in AllRequests, r2 \in AllRequests :
          /\ r1 # r2
          /\ r1.file = r2.file
          /\ Satisfiable(r1) /\ HasArg(hist.orig[r1.file], TargetOf(r1))
          /\ Satisfiable(r2) /\ HasArg(hist.orig[r2.file], TargetOf(r2))
          /\ Len(disk[r1.file]) # Len(hist.orig[r1.file])
          /\ disk[r1.file] = Expected(r1.file)

\* C5: in batch mode, a request for which no matcher starts at its offset,
\* or whose matcher has a different name, appears in the aggregate failure
\* report, while every satisfiable request of the run is applied and its
\* file saved before the failure is raised.
C5_UnmatchedAggregation ==
    Finished =>
        /\ \A r \in AllRequests :
              ~Satisfiable(r) =>
                  /\ pc = "unsatisfied"
                  /\ r \in Range(unsatisfiedRequests)
                  /\ ReportLine(r) \in Range(hist.report)
        /\ \A r \in AllRequests : Satisfiable(r) => r \notin Range(unsatisfiedRequests)
        /\ \A f \in Files : disk[f] = Expected(f)

\* The requests of a set in the order of their keys, ascending: an order
\* of registration that depends on the set only.
RECURSIVE InKeyOrder(_)
InKeyOrder(S) ==
    IF S = {} THEN <<>>
    ELSE LET first == CHOOSE r \in S : \A q \in S \ {r} : SortsBeforeAscending(r, q)
         IN  <<first>> \o InKeyOrder(S \ {first})

\* The loop over the sorted requests of one file, from a SourceCode object
\* on: the object and the unmatched requests at its end.
RECURSIVE ProcessAll(_, _, _, _)
ProcessAll(s, allMatchers, reqs, unsatisfied) ==
    IF reqs = <<>> THEN [sc |-> s, unsatisfied |-> unsatisfied]
    ELSE LET r == ProcessRequest(s, allMatchers, Head(reqs))
         IN  ProcessAll(r.sc, allMatchers, Tail(reqs),
                        IF r.unsatisfied THEN unsatisfied \cup {Head(reqs)} ELSE unsatisfied)

RequestsOf(f) == {r \in AllRequests : r.file = f}
RequestedFiles == {f \in Files : RequestsOf(f) # {}}

\* What performRebaselines does to file f when the requests of f were
\* registered in the order of their keys.
InKeyOrderRun(f) ==
    ProcessAll(NewSourceCode(hist.orig[f]), extractSourceCodeMatchers(hist.orig[f]),
               SortRequests(InKeyOrder(RequestsOf(f))), {})

\* C13: the outcome of batch apply, that is the text of every file on disk
\* and the set of unmatched requests, is the outcome of the run in which
\* the same requests were registered in the order of their keys, whatever
\* the order they were registered in; two requests on one line are both
\* applied whichever came first.
C13_OrderIndependent ==
    /\ pc = "failed" => disk = hist.orig
    /\ Finished =>
          /\ \A f \in RequestedFiles : disk[f] = InKeyOrderRun(f).sc.code
          /\ \A f \in Files \ RequestedFiles : disk[f] = hist.orig[f]
          /\ Range(unsatisfiedRequests) = UNION {InKeyOrderRun(f).unsatisfied : f \in RequestedFiles}

\* C13's case: two satisfiable requests on one line, the right one
\* registered first and the left one, which changes the length of the text,
\* second; both were applied.
C13_Witness ==
    /\ pc = "done"
    /\ \E k \in 1..Len(pending) :
          /\ Len(pending[k].reqs) = 2
          /\ pending[k].reqs[1].lineNumber = pending[k].reqs[2].lineNumber
          /\ pending[k].reqs[1].columnNumber > pending[k].reqs[2].columnNumber
          /\ Satisfiable(pending[k].reqs[1])
          /\ Satisfiable(pending[k].reqs[2])
          /\ Len(Stringify(pending[k].reqs[2].newExpected)) > 1
          /\ disk[pending[k].file] = Expected(pending[k].file)

\* The run is over: performRebaselines returned or threw.
Over == pc \in {"done", "unsatisfied", "failed"}

\* C15: in batch mode a file that cannot be parsed stops the processing of
\* that file only: when the run is over, every request on a file that
\* parses being satisfiable, each file that parses is saved with its
\* requests applied.
C15_FailureAbortsOneFile ==
    (/\ Over
     /\ \A r \in AllRequests :
           Parses(hist.orig[r.file])
           => Satisfiable(r) /\ HasArg(hist.orig[r.file], TargetOf(r)))
    => \A f \in Files : Parses(hist.orig[f]) => disk[f] = Expected(f)

\* The edits made to a SourceCode object that has not been saved since.
UnsavedEdits == {k \in 1..Len(hist.edits) : sc[hist.edits[k].file].hadChanges}

\* C16: in every state of batch mode at most one applied edit exists that
\* has not been saved to disk.
C16_AtMostOneUnsaved == Cardinality(UnsavedEdits) <= 1

\* The requests that performRebaselines applied.
Applied == {hist.edits[k].request : k \in 1..Len(hist.edits)}

\* C17: once performRebaselines has returned, no request that it applied is
\* left in the pending set _requests, so that another pass over the set
\* would not apply it again.
C17_AppliedLeavesPending ==
    Finished => Applied \cap AllRequests = {}

\* The run over the text expect(1).toBe(2); of b.spec.js whose only request
\* is the one for toBe with value 1 at line 1 and the column given.
OnlyRequestAt(column) ==
    /\ Over
    /\ hist.orig["b.spec.js"] = TextB
    /\ AllRequests = {[file |-> "b.spec.js", lineNumber |-> 1, columnNumber |-> column,
                       matcherName |-> ToBe, newExpected |-> Number(1)]}

\* C25 as stated: the request at line 1, column 8 turns expect(1).toBe(2);
\* into expect(1).toBe(1);
C25_AsStated ==
    OnlyRequestAt(8) => pc = "done" /\ disk["b.spec.js"] = Stmt(ToBe, <<"1">>)

\* C25: the request at line 1, column 11, where the name toBe starts, turns
\* expect(1).toBe(2); into expect(1).toBe(1);
C25_AtMatcherName ==
    OnlyRequestAt(11) => pc = "done" /\ disk["b.spec.js"] = Stmt(ToBe, <<"1">>)

\* C25's case: the run with that only request at column 11 is over and the
\* text on disk has changed.
C25_Witness ==
    /\ OnlyRequestAt(11)
    /\ pc = "done"
    /\ disk["b.spec.js"] # TextB

\* C26: the aggregate error of batch apply names, for each unmatched
\* request, its file and the line, counted from 1, it was delivered with.
C26_ReportNamesDeliveredLine ==
    pc = "unsatisfied" =>
        /\ Len(hist.report) = Len(unsatisfiedRequests)
        /\ \A k \in 1..Len(unsatisfiedRequests) :
              /\ hist.report[k].file = unsatisfiedRequests[k].file
              /\ hist.report[k].line = unsatisfiedRequests[k].lineNumber

\* C28: in batch mode, when an edit is issued the text in its range
\* from..to is still the original text of that range: the ranges taken from
\* the one extraction of the file stay valid for the whole pass.
C28_RangesStayValid ==
    \A k \in 1..Len(hist.edits) :
        LET edit == hist.edits[k]
        IN  Substring(edit.before, edit.from, edit.to)
                = Substring(hist.orig[edit.file], edit.from, edit.to)

\* C29: within one file batch mode issues its edits in strictly descending
\* order of position, line first and then column, so that the range of
\* each edit ends at or before the start of every edit issued before it in
\* that file.
C29_EditsDescend ==
    \A j \in 1..Len(hist.edits) : \A k \in 1..Len(hist.edits) :
        (j < k /\ hist.edits[j].file = hist.edits[k].file) =>
            /\ SortsBefore(hist.edits[j].request, hist.edits[k].request)
            /\ hist.edits[k].to <= hist.edits[j].from

\* C38: a batch request whose line number lies beyond the last line of its
\* file causes no edit, and is among the unmatched requests when
\* performRebaselines is over.
C38_PastTheEndUnmatched ==
    \A r \in AllRequests \cup Applied :
        r.lineNumber > LineCount(hist.orig[r.file]) =>
            /\ r \notin Applied
            /\ (Finished /\ Parses(hist.orig[r.file])) => r \in Range(unsatisfiedRequests)

\* The start offsets of the matchers _ensureMatchers makes for a text.
InteractiveStarts(code) ==
    LET s == ensureMatchers(NewSourceCode(code))
    IN  [k \in 1..Len(s.matchers) |-> s.liveOffsets[s.matchers[k].offset]]

StrictlyAscending(offsets) ==
    \A j \in 1..Len(offsets) : \A k \in 1..Len(offsets) : j < k => offsets[j] < offsets[k]

\* C31: the matchers extracted from a text that parses are sorted by
\* strictly ascending start offset, those the pass works with and those of
\* either extractor for every text on disk.
C31_ExtractionSorted ==
    /\ StrictlyAscending([k \in 1..Len(queue.allMatchers) |-> queue.allMatchers[k].range.from])
    /\ \A f \in Files :
          Parses(disk[f]) =>
              /\ StrictlyAscending([k \in 1..Len(extractSourceCodeMatchers(disk[f])) |->
                                       extractSourceCodeMatchers(disk[f])[k].range.from])
              /\ StrictlyAscending(InteractiveStarts(disk[f]))

\* C31's case: the pass works with the three matchers extracted from a file.
C31_Witness ==
    /\ pc = "loop"
    /\ Len(queue.allMatchers) = 3
    /\ queue.allMatchers[1].range.from < queue.allMatchers[3].range.from

---------------------------------------------------------------------------
(* Claims about the interactive run, checked under SpecInteractive.        *)

\* The raw request of the store the current run loaded that has this id.
LoadedRaw(id) ==
    hist.loaded.store[CHOOSE k \in 1..Len(hist.loaded.store) : hist.loaded.store[k].id = id]

\* The index of the k-th call of a text that _ensureMatchers keeps.
SiteOf(code, k) == Ascending(InteractiveSites(code))[k]

\* At load time request r designated the call site of matcher k of its
\* file: its recorded offset was the start of that call's name, and it
\* bears that name.
Designates(r, k) ==
    LET code == hist.loaded.disk[r.file]
    IN  /\ k \in 1..Cardinality(InteractiveSites(code))
        /\ SiteOf(code, k) - 1 = LoadedRaw(r.id).offset
        /\ SiteName(code, SiteOf(code, k)) = r.matcherName

\* The indexes in requests of the requests the loop has not handled yet;
\* none once the command has returned or thrown.
NotYetProcessed ==
    IF pc \in {"start", "closed", "failed"} THEN {}
    ELSE {j \in 1..Len(requests) : j > cur \/ (j = cur /\ pc = "find")}

\* C2: in interactive mode, after any accepted edits to a file, every
\* not-yet-processed request of that file still locates the matcher of the
\* call site it designated at load time: its live offset equals that
\* matcher's live offset, which is where the call's name starts in the
\* current text, and findMatcher(name, offset) returns that matcher.
C2_RequestsStayLocated ==
    \A j \in NotYetProcessed :
        LET r == requests[j]
            s == sc[r.file]
        IN  s.hasMatchers =>
                \A k \in 1..Len(s.matchers) :
                    Designates(r, k) =>
                        /\ s.liveOffsets[r.offset] = s.liveOffsets[s.matchers[k].offset]
                        /\ s.liveOffsets[r.offset] = SiteOf(s.code, k) - 1
                        /\ findMatcher(s, r.matcherName, s.liveOffsets[r.offset]) = k

\* C2's case: an accepted edit changed the length of a file's text, and a
\* request of that file which is still to be handled has moved with its call.
C2_Witness ==
    \E j \in NotYetProcessed :
        LET r == requests[j]
            s == sc[r.file]
        IN  /\ s.hasMatchers
            /\ \E k \in 1..Len(s.matchers) : Designates(r, k)
            /\ \E e \in Range(hist.edits) : e.file = r.file /\ e.id \in hist.accepted
            /\ s.liveOffsets[r.offset] # LoadedRaw(r.id).offset

\* The index in the text of the call a matcher of s stands for.
MatcherSite(s, k) == s.liveOffsets[s.matchers[k].offset] + 1

\* C4: a call of a supported matcher whose first argument holds an
\* identifier (other than a non-computed object key) never yields a
\* Matcher, and its text is never rewritten by an accepted request.
C4_IdentifierNeverMatched ==
    /\ \A f \in cache :
          \A k \in 1..Len(sc[f].matchers) :
              ~hasIdentifier(sc[f].code, MatcherSite(sc[f], k))
    /\ (last.op = "accept" /\ ~last.threw)
          => ~hasIdentifier(last.before.code, MatcherSite(last.before, last.matcher))

\* The raw request was recorded against another text than the one loaded.
IsStale(raw) == raw.md5hash # Md5(hist.loaded.disk[raw.file])

LoadedStore == Range(hist.loaded.store)

\* C6: a request recorded against fingerprint H1 and loaded while its
\* file's fingerprint is H2 # H1 is dropped: the run holds no request for
\* it, never prompts for it, never applies it, and a run whose requests
\* are all stale ends without an error.
C6_StaleDropped ==
    pc # "start" =>
        /\ \A raw \in LoadedStore :
              IsStale(raw) =>
                  /\ \A j \in 1..Len(requests) : requests[j].id # raw.id
                  /\ raw.id \notin hist.asked
                  /\ raw.id \notin hist.accepted
        /\ (\A raw \in LoadedStore : IsStale(raw)) => pc = "closed"

\* C6's case: a run that loaded a stale and a fresh request of one file has
\* prompted for the fresh one and ended.
C6_Witness ==
    /\ pc = "closed"
    /\ \E stale \in LoadedStore, fresh \in LoadedStore :
          /\ stale.file = fresh.file
          /\ IsStale(stale)
          /\ ~IsStale(fresh)
          /\ fresh.id \in hist.asked
          /\ stale.id \notin hist.asked

\* The answer holds a y, in either case.
SaysYes(answer) == "y" \in Range(answer) \/ "Y" \in Range(answer)

\* The cells of a file that existed before the last step kept their values.
CellsKept ==
    /\ Len(sc[last.file].liveOffsets) >= Len(last.before.liveOffsets)
    /\ \A i \in 1..Len(last.before.liveOffsets) :
          sc[last.file].liveOffsets[i] = last.before.liveOffsets[i]

\* C7: in interactive mode the text of a file, in memory and on disk, and
\* the store are modified only after an accepting answer to a prompt of a
\* request of that run (the text in memory also by an accepted handler that
\* threw); finding the matcher and asking modifies none of them; an answer
\* without y leaves the text, the live offsets, the dirty flag, the file on
\* disk and the store as they were, and the loop moves on to the next
\* request.
C7_OnlyAfterAccept ==
    /\ pc # "start" =>
          /\ \A f \in Files :
                /\ disk[f] # hist.loaded.disk[f]
                      => \E e \in Range(hist.edits) : e.file = f /\ e.id \in hist.accepted
                /\ (f \in cache /\ sc[f].code # hist.loaded.disk[f])
                      => \/ \E e \in Range(hist.edits) : e.file = f /\ e.id \in hist.accepted
                         \/ (last.op = "accept" /\ last.file = f /\ SaysYes(last.answer))
          /\ store # hist.loaded.store => hist.accepted # {}
          /\ hist.accepted \subseteq hist.asked
    /\ last.op = "find" =>
          /\ sc[last.file].code = last.before.code
          /\ sc[last.file].hadChanges = last.before.hadChanges
          /\ CellsKept
          /\ disk = last.diskBefore
          /\ store = last.storeBefore
    /\ (last.op \in {"accept", "decline"} /\ ~SaysYes(last.answer)) =>
          /\ sc[last.file] = last.before
          /\ disk = last.diskBefore
          /\ store = last.storeBefore
          /\ cur = last.request + 1
          /\ pc = (IF last.request < Len(requests) THEN "find" ELSE "closed")

\* C7's case: a request of a file was accepted and saved, and the next
\* request of the same file was declined.
C7_Witness ==
    /\ last.op = "decline"
    /\ \E e \in Range(hist.edits) : e.file = last.file /\ e.id \in hist.accepted
    /\ disk[last.file] # hist.loaded.disk[last.file]
    /\ store # hist.loaded.store
    /\ pc = "closed"

\* The previous run was interrupted inside the loop.
Interrupted == hist.stopped \in {"find", "prompt", "persist", "save"}

\* C8: a run interrupted at any point loses at most the in-flight
\* confirmation: the run started next from the store and the files holds,
\* for every other request the user had not accepted, a request for its
\* call site; and only the file of the in-flight request had text in memory
\* that was not on disk.
C8_LosesAtMostInflight ==
    (Interrupted /\ pc # "start") =>
        /\ \A id \in hist.owed : \E j \in 1..Len(requests) : requests[j].id = id
        /\ \A f \in hist.unsaved : hist.inflight # 0 /\ f = hist.inflightFile

\* The text of the argument of the k-th call that _ensureMatchers keeps.
ArgText(code, k) ==
    LET i == SiteOf(code, k)
    IN  IF HasArg(code, i) THEN SubSeq(code, ArgStart(code, i) + 1, ArgEnd(code, i)) ELSE <<>>

\* The inline edits of the request that was in flight when the previous
\* run stopped.
InflightEdits ==
    {e \in Range(hist.edits) : e.id = hist.inflight /\ e.name \in InlineMatchers}

\* C9: when the process stops after the shrunk store was written and before
\* the Source File was saved, running the command again recovers: after the
\* re-run the accepted edit is in the file on disk.
C9_RerunRecovers ==
    (hist.stopped = "save" /\ pc = "closed") =>
        \A e \in InflightEdits : ArgText(disk[e.file], e.matcher) = Stringify(e.value)

\* C10: for an accepted inline-value request whose matcher (the one of the
\* call it was recorded at) has no argument, the interactive path replaces
\* the call name() by name(JSON text of the value).
C10_FillsMissingArgument ==
    (/\ last.op = "accept"
     /\ requests[last.request].matcherName \in InlineMatchers
     /\ Designates(requests[last.request], last.matcher)
     /\ last.before.matchers[last.matcher].argStart = 0)
        => /\ ~last.threw
           /\ LET from == MatcherSite(last.before, last.matcher) - 1
                  to == SiteClose(last.before.code, from + 1)
                  name == requests[last.request].matcherName
              IN  sc[last.file].code =
                      Substring(last.before.code, 0, from)
                      \o name \o <<"(">> \o Stringify(requests[last.request].value) \o <<")">>
                      \o SubstringFrom(last.before.code, to)

\* A matcher of s bearing the name of request r starts at r's live offset.
MatcherAt(s, r) ==
    \E k \in 1..Len(s.matchers) :
        /\ s.matchers[k].name = r.matcherName
        /\ s.liveOffsets[s.matchers[k].offset] = s.liveOffsets[r.offset]

\* C18: in interactive mode, when no matcher starts at the live offset of
\* the request looked up, or the matcher there bears another name, the run
\* fails with an error and shows no prompt for the request, and nothing has
\* been edited, stored or saved for it.
C18_FailsFast ==
    (/\ last.op = "find"
     /\ sc[last.file].hasMatchers
     /\ ~MatcherAt(sc[last.file], requests[last.request]))
    => /\ pc = "failed"
       /\ last.threw
       /\ sc[last.file].code = last.before.code
       /\ disk = last.diskBefore
       /\ store = last.storeBefore

\* The ids of the requests in the store.
StoredIds == {store[i].id : i \in 1..Len(store)}

\* C19: the interactive run ends normally whatever the user answers, and
\* when it has ended the store holds the requests that were not accepted
\* and no other; stated for the stores all of whose requests are fresh and
\* were recorded at the name of a call that is a matcher.
C19_CompletesNormally ==
    (/\ pc # "start"
     /\ \A raw \in LoadedStore :
           /\ ~IsStale(raw)
           /\ \E k \in 1..Cardinality(InteractiveSites(hist.loaded.disk[raw.file])) :
                 Designates(raw, k))
    => /\ pc # "failed"
       /\ pc = "closed" => StoredIds = Unresolved

\* The request accepted last was one for toMatchSnapshot or toHaveScreenshot.
SnapshotAccepted ==
    /\ last.op = "accept"
    /\ requests[last.request].matcherName \notin InlineMatchers

\* C23: accepting a request for toMatchSnapshot or toHaveScreenshot that
\* bears its two paths does not throw, leaves the snapshot file with the
\* content of the actual file, and leaves the text, the fingerprint, the
\* dirty flag and every live offset of the Source File as they were, so
\* that the save that follows writes nothing: the file on disk and the
\* flag stay as they were until the next request is looked up.
C23_SnapshotLeavesSource ==
    (SnapshotAccepted /\ requests[last.request].paths) =>
        LET request == requests[last.request]
            s == sc[last.file]
        IN  /\ ~last.threw
            /\ artifacts[snapshotPath(request)] = artifacts[actualPath(request)]
            /\ s.code = last.before.code
            /\ md5hash(s).md5 = md5hash(last.before).md5
            /\ s.hadChanges = last.before.hadChanges
            /\ s.liveOffsets = last.before.liveOffsets
            /\ ~savesToDisk(s)
            /\ disk = last.diskBefore

\* C23's case: a request for toMatchSnapshot was accepted, the snapshot
\* file has changed, and the save that follows has been made.
C23_Witness ==
    /\ SnapshotAccepted
    /\ requests[last.request].matcherName = ToMatchSnapshot
    /\ artifacts[snapshotPath(requests[last.request])] # <<"expected">>
    /\ pc \in {"find", "closed"}

\* C27: findMatcher(name, offset) returns a matcher only when that matcher
\* bears the name and starts exactly at the offset; when no matcher starts
\* at the offset it returns none, never the next one.
C27_LookupIsExact ==
    (last.op = "find" /\ last.matcher # 0) =>
        LET s == sc[last.file]
            request == requests[last.request]
        IN  /\ s.matchers[last.matcher].name = request.matcherName
            /\ s.liveOffsets[s.matchers[last.matcher].offset] = s.liveOffsets[request.offset]

\* The call site a loaded raw request was recorded at, in the text its run
\* loaded.
RecordedSite(raw) == raw.offset + 1

\* The raw request is fresh and was recorded at the name of a toBe or
\* toEqual call whose argument is a number or a string.
TargetsLiteral(raw) ==
    LET code == hist.loaded.disk[raw.file]
        i == RecordedSite(raw)
    IN  /\ ~IsStale(raw)
        /\ raw.matcherName \in InlineMatchers
        /\ i \in InteractiveSites(code)
        /\ SiteName(code, i) = raw.matcherName
        /\ HasArg(code, i)
        /\ code[ArgStart(code, i) + 1] # BackQuote

\* The requests the run loaded each target a matcher of their own that has
\* a literal argument.
DistinctLiteralTargets ==
    /\ \A raw \in LoadedStore : TargetsLiteral(raw)
    /\ \A r1 \in LoadedStore : \A r2 \in LoadedStore :
          (r1.file = r2.file /\ r1.offset = r2.offset) => r1.id = r2.id

\* What accepting a loaded raw request means for the text its run loaded.
AcceptedEdit(raw) ==
    LET code == hist.loaded.disk[raw.file]
        i == RecordedSite(raw)
    IN  [lo |-> ArgStart(code, i) + 1, hi |-> ArgEnd(code, i), text |-> Stringify(raw.value)]

\* The text of file f the run loaded, with the arguments of the accepted
\* requests of f replaced.
ExpectedAfterAnswers(f) ==
    Rewrite(hist.loaded.disk[f], 1,
            {AcceptedEdit(raw) : raw \in {r \in LoadedStore : r.file = f /\ r.id \in hist.accepted}})

\* C30: when the requests a run loaded each target a matcher of their own
\* with a literal argument, the run ends normally whatever the answers
\* are, and then the text of each file, on disk and in memory, is the text
\* the run loaded with the argument of every accepted request replaced by
\* the JSON text of its value, and nothing else changed.
C30_AcceptedEditsOnly ==
    (pc # "start" /\ DistinctLiteralTargets) =>
        /\ pc # "failed"
        /\ pc = "closed" =>
              \A f \in Files :
                  /\ disk[f] = ExpectedAfterAnswers(f)
                  /\ f \in cache => sc[f].code = disk[f]

\* C30's case: of two requests of one file with literal arguments the left
\* one was accepted, changing the length of the text, the right one was
\* declined, and the run has ended.
C30_Witness ==
    /\ pc = "closed"
    /\ DistinctLiteralTargets
    /\ last.op = "decline"
    /\ Cardinality(hist.accepted) = 1
    /\ Len(requests) = 2
    /\ requests[1].file = requests[2].file
    /\ Len(disk[last.file]) # Len(hist.loaded.disk[last.file])

\* C32: the replace an accepted request makes on the Source File of its
\* file leaves the object of every other file as it was: text, fingerprint,
\* dirty flag and live offsets.
C32_OtherFilesUntouched ==
    (last.op = "accept" /\ pc \in {"persist", "failed"}) =>
        \A g \in Files \ {last.file} : sc[g] = last.allBefore[g]

\* C32's case: a replace has changed the text of one file while the object
\* of the other file holds live offsets.
C32_Witness ==
    /\ last.op = "accept"
    /\ pc = "persist"
    /\ sc[last.file].code # last.before.code
    /\ \E g \in cache \ {last.file} : sc[g].liveOffsets # <<>>

\* The accepted edit of the last answer is complete: the store was
\* persisted, the file saved, and the loop has moved on.
AcceptCompleted == last.op = "accept" /\ pc \in {"find", "closed"}

\* C33: once an accepted edit is complete, every request of the persisted
\* store can be loaded by a fresh run: its fingerprint is the hash of the
\* text on disk of its file, and when it designated matcher j at load time
\* its offset is where the name of the j-th matcher call starts in that
\* text.
C33_StoreLoadable ==
    AcceptCompleted =>
        \A k \in 1..Len(store) :
            LET raw == store[k]
                code == disk[raw.file]
            IN  /\ raw.md5hash = Md5(code)
                /\ \A j \in 1..Cardinality(InteractiveSites(hist.loaded.disk[raw.file])) :
                      Designates(raw, j) =>
                          /\ j <= Cardinality(InteractiveSites(code))
                          /\ raw.offset = SiteOf(code, j) - 1
                          /\ SiteName(code, SiteOf(code, j)) = raw.matcherName

\* C33's case: an accepted edit that changed the length of a file is
\* complete and the store keeps a request of that file whose offset moved.
C33_Witness ==
    /\ AcceptCompleted
    /\ \E k \in 1..Len(store) :
          /\ store[k].file = last.file
          /\ store[k].offset # LoadedRaw(store[k].id).offset
          /\ \E j \in 1..Cardinality(InteractiveSites(disk[last.file])) : Designates(store[k], j)

\* What C34 concludes for the interactive run: the matchers a file caches
\* stay sorted by the value of their live offset, whatever was accepted.
MatchersStaySorted ==
    \A f \in Files :
        \A j \in 1..Len(sc[f].matchers) : \A k \in 1..Len(sc[f].matchers) :
            j < k => sc[f].liveOffsets[sc[f].matchers[j].offset]
                        < sc[f].liveOffsets[sc[f].matchers[k].offset]

\* Every request the run loaded was recorded at the start of the name of a
\* matcher call of its file.
LoadedAtMatcherNames ==
    \A k \in 1..Len(requests) :
        \E j \in 1..Cardinality(InteractiveSites(hist.loaded.disk[requests[k].file])) :
            Designates(requests[k], j)

\* C36: in the interactive run, when every loaded request is at the start
\* of a matcher's name, no accepted inline edit fails with 'internal error:
\* LiveOffset was removed due to edit operation': the handler of a matcher
\* with an argument does not throw.
C36_NoOffsetRemoved ==
    (/\ last.op = "accept"
     /\ last.threw
     /\ requests[cur].matcherName \in InlineMatchers
     /\ last.before.matchers[last.matcher].argStart # 0)
        => ~LoadedAtMatcherNames

\* C37: the position the interactive prompt shows for a request,
\* offsetToPosition(request.offset.value), is the line and the column
\* (counted from 0) of the request's call in the current text of its file,
\* also after accepted edits changed the length of that text (for requests
\* recorded at the names of matcher calls).
C37_PromptAtCallSite ==
    (pc = "prompt" /\ LoadedAtMatcherNames) =>
        LET request == requests[cur]
            s == sc[request.file]
            offset == s.liveOffsets[request.offset]
        IN  offsetToPosition(s, offset)
                = <<LineOf(s.code, offset) - 1, ColumnOf(s.code, offset) - 1>>

---------------------------------------------------------------------------
(* Claims about the recording run, checked under SpecRecord.               *)

\* The key of a recorded request: its file and the position of its step.
\* In the store the position is the offset of that line and column.
StoreKey(raw) == <<raw.file, raw.offset>>

\* The steps of the log that have a location, and the key of each.
Located == {k \in 1..Len(log.failedSteps) : log.failedSteps[k].hasLocation}
StepKey(k) ==
    <<log.failedSteps[k].file, log.failedSteps[k].line, log.failedSteps[k].column>>

\* C12: after any sequence of recordings through RebaselineLog.onStepEnd
\* followed by save, the store holds at most one request per (file, line,
\* column), and it is the one of the last step recorded for that key.
C12_OneRequestPerKey ==
    pc = "saved" =>
        /\ \A i \in 1..Len(store), j \in 1..Len(store) :
              StoreKey(store[i]) = StoreKey(store[j]) => i = j
        /\ \A k \in Located :
              (\A k2 \in Located : StepKey(k2) = StepKey(k) => k2 <= k)
                  => \E i \in 1..Len(store) : store[i].value = log.rebaselineInfos[k].value
                                               /\ store[i].file = log.failedSteps[k].file

---------------------------------------------------------------------------
(* Claims about loads in flight together, checked under SpecRead.          *)

\* The callers that have called read for file f, and those that went on.
CallersOf(f) == {c \in 1..MaxCallers : loads.callers[c].file = f /\ loads.callers[c].at # "start"}
ResumedOf(f) == {c \in CallersOf(f) : loads.callers[c].at = "resumed"}

\* C14: with a shared cache, the loads of one path that are in flight
\* together issue one disk read (never a second one, and one by the time a
\* caller goes on), and every caller goes on with the same SourceCode
\* object.
C14_OneReadOneInstance ==
    (pc = "read" /\ loads.shared) =>
        \A f \in Files :
            /\ loads.reads[f] <= 1
            /\ ResumedOf(f) # {} => loads.reads[f] = 1
            /\ \A c1, c2 \in ResumedOf(f) :
                  loads.callers[c1].sourceCode = loads.callers[c2].sourceCode
            /\ \A c1, c2 \in CallersOf(f) :
                  loads.callers[c1].promise = loads.callers[c2].promise

\* C14's case: with a shared cache, a caller called read for a path while
\* the load another caller had started was still in flight, and both went
\* on.
C14_Witness ==
    /\ pc = "read"
    /\ loads.shared
    /\ \E f \in Files : \E c1, c2 \in ResumedOf(f) :
          /\ loads.callers[c1].found = "new"
          /\ loads.callers[c2].found \in {"scheduled", "reading"}

---------------------------------------------------------------------------
(* Claims about the update modes, checked under SpecMode.                  *)

\* The attempt of the last call was not the final one of a test whose
\* configured mode is 'missing'.
MissingBeforeFinal ==
    /\ last.configured = "missing"
    /\ last.testInfo.retry < last.testInfo.project.retries

\* C39 as stated: updateMatchersMode and updateSnapshotsMode return 'none'
\* exactly when the configured mode is 'missing' and the retry index is less
\* than the project's retry count.
C39_AsStated ==
    last.op # "none" => (last.result = "none" <=> MissingBeforeFinal)

\* C39 as amended: updateMatchersMode and updateSnapshotsMode return 'none'
\* in place of the configured mode exactly when that mode is 'missing' and
\* the retry index is less than the project's retry count; in every other
\* case they return the configured mode unchanged ('none' when 'none' is
\* configured), so in 'missing' mode updates are enabled only on the final
\* attempt.
C39_NoneBeforeFinalAttempt ==
    last.op # "none" =>
        /\ MissingBeforeFinal => last.result = "none"
        /\ ~MissingBeforeFinal => last.result = last.configured
        /\ last.result # last.configured <=> MissingBeforeFinal
        /\ last.configured = "missing" =>
              (last.result # "none" <=> last.testInfo.retry = last.testInfo.project.retries)

\* C39's case: updateMatchersMode was called in 'missing' mode on the final
\* attempt of a test that was retried, and returned 'missing'.
C39_Witness ==
    /\ last.op = "updateMatchersMode"
    /\ last.configured = "missing"
    /\ last.testInfo.retry > 0
    /\ last.testInfo.retry = last.testInfo.project.retries
    /\ last.result = "missing"

====
